---- MODULE Spec2Model ----
(***************************************************************************)
(* A model of PyECMA376-2 (pyecma376_2/package_model.py, zip_package.py):  *)
(* the part-name functions, the content-types manifest, the package writer *)
(* with its fragmented-part handles, and the package reader with its       *)
(* fragmented-part read stream.                                            *)
(*                                                                         *)
(* A Python str is a sequence of one-character strings, so that quoting,   *)
(* lower-casing, splitting and the regular expressions act on characters.  *)
(* A bytes value is a sequence of small integers.  A content type is an    *)
(* opaque string; a missing content type (Python's None) is "None".        *)
(***************************************************************************)
EXTENDS Integers, Sequences, FiniteSets, TLC

VARIABLES
    content_types_stream_name, \* the backend's class attribute; << >> is None
    default_types,             \* ContentTypesData.default_types (insertion-ordered dict)
    overrides,                 \* ContentTypesData.overrides     (insertion-ordered dict)
    content_types_written,     \* OPCPackageWriter.content_types_written
    items,                     \* the ZIP archive: its entries in creation order
    handles,                   \* the FragmentedPartWriterHandle objects handed out
    last,                      \* history: the writer call made last and how it ended
    pn_in,                     \* argument of the pure part-name function under check
    pn_out,                    \* its outcome
    pn_call,                   \* history: the function applied, its second argument
                               \* and the string it returned
    fr,                        \* the FragmentedPartReader object, << >> when there is none
    fr_last,                   \* history: the read-stream call made last and its result
    fr_out,                    \* history: all bytes the read stream has returned
    opened,                    \* outcome of the reader's construction, "none" before it
    _parts,                    \* OPCPackageReader._parts
    reader_last,               \* history: the reader call made last and its result
    cp,                        \* an OPCCoreProperties object, or what else a codec is given
    cp_last                    \* history: the codec call made last on it and its result

vars == << content_types_stream_name, default_types, overrides, content_types_written,
           items, handles, last, pn_in, pn_out, pn_call, fr, fr_last,
           fr_out, opened, _parts, reader_last, cp, cp_last >>

writerVars == << content_types_stream_name, default_types, overrides,
                 content_types_written, items, handles, last >>
nameVars == << pn_in, pn_out, pn_call >>
indexVars == << opened, _parts, reader_last >>

coreVars == << cp, cp_last >>

readVars == << fr, fr_last, fr_out, indexVars, coreVars >>

----------------------------------------------------------------------------
(* Bounds of the model *)

\* most parts, fragment handles and fragments one writer creates
MaxCreated == 3
\* most parts, fragment handles and fragments in a package that is read back
MaxWritten == 4
\* longest name given to check_part_name
MaxNameLen == 4
\* longest reference given to part_realpath
MaxReferenceLen == 6
\* most entries, the content-types stream aside, in an archive that is read
MaxItems == 3
\* most keywords of a Core Properties object
MaxKeywords == 2
\* most Defaults, Overrides and relationships that are encoded
MaxEntries == 2
\* most fragments of the part a read stream is opened on
MaxFragments == 3
\* most bytes in the fragmented part that is read
MaxBytes == 3
\* largest size argument given to read
MaxReadSize == 2

----------------------------------------------------------------------------
(* Characters and strings *)

UPPER == << "A", "B", "C", "D", "E", "F", "G", "H", "I", "J", "K", "L", "M",
            "N", "O", "P", "Q", "R", "S", "T", "U", "V", "W", "X", "Y", "Z" >>
LOWER == << "a", "b", "c", "d", "e", "f", "g", "h", "i", "j", "k", "l", "m",
            "n", "o", "p", "q", "r", "s", "t", "u", "v", "w", "x", "y", "z" >>
DIGITS == << "0", "1", "2", "3", "4", "5", "6", "7", "8", "9" >>

Range(f) == { f[i] : i \in DOMAIN f }
Letters == Range(UPPER) \cup Range(LOWER)

\* the lower-case letter of each upper-case letter
LowerOf == [ c \in Range(UPPER) |-> LOWER[CHOOSE i \in DOMAIN UPPER : UPPER[i] = c] ]

\* str.lower() on one character
lower_char(c) == IF c \in DOMAIN LowerOf THEN LowerOf[c] ELSE c

\* str.lower()
lower(s) == [ i \in 1..Len(s) |-> lower_char(s[i]) ]

\* str(int), as "{}".format(n) prints a fragment number
RECURSIVE IntToStr(_)
IntToStr(n) ==
    IF n < Len(DIGITS) THEN << DIGITS[n + 1] >>
    ELSE IntToStr(n \div Len(DIGITS)) \o << DIGITS[(n % Len(DIGITS)) + 1] >>

\* index of the last occurrence of character c in s, 0 when there is none (str.rfind + 1)
LastIndexOf(s, c) ==
    IF \E i \in 1..Len(s) : s[i] = c
    THEN CHOOSE i \in 1..Len(s) : s[i] = c /\ \A j \in (i + 1)..Len(s) : s[j] # c
    ELSE 0

\* s.split(c)[-1]
LastPiece(s, c) == SubSeq(s, LastIndexOf(s, c) + 1, Len(s))

\* c.join(s.split(c)[:-1]) followed by c, or nothing when s holds no c
ButLastPieces(s, c) == SubSeq(s, 1, LastIndexOf(s, c))

StartsWith(s, p) == Len(s) >= Len(p) /\ SubSeq(s, 1, Len(p)) = p

EndsWith(s, p) == Len(s) >= Len(p) /\ SubSeq(s, Len(s) - Len(p) + 1, Len(s)) = p

\* all sequences over S of length at most n
RECURSIVE SeqsUpTo(_, _)
SeqsUpTo(S, n) ==
    IF n = 0 THEN { << >> }
    ELSE LET shorter == SeqsUpTo(S, n - 1)
         IN  shorter \cup { Append(s, c) : s \in shorter, c \in S }

----------------------------------------------------------------------------
(* normalize_part_name: urllib.parse.quote with the given safe set, then lower() *)

\* characters quote() never encodes
ALWAYS_SAFE == Letters \cup Range(DIGITS) \cup { "_", ".", "-", "~" }

\* the safe= argument of the quote() call
QUOTE_SAFE == { "/", "#", "%", "[", "]", "=", ":", ";", "$", "&", "(", ")",
                "+", ",", "!", "?", "*", "@", "'", "~" }

\* "%XX" for each UTF-8 byte of a character quote() encodes (upper-case hex digits)
Utf8Hex(c) ==
    CASE c = " "  -> << "%", "2", "0" >>
      [] c = "\\" -> << "%", "5", "C" >>
      [] c = "\n" -> << "%", "0", "A" >>
      [] c = "{"  -> << "%", "7", "B" >>
      [] c = "ö" -> << "%", "C", "3", "%", "B", "6" >>

\* characters this quote() call leaves as they are
UNQUOTED == ALWAYS_SAFE \cup QUOTE_SAFE

\* a quote() without "%" in its safe set
quote_char_escaping_percent(c) ==
    IF c = "%" THEN << "%", "2", "5" >>
    ELSE IF c \in UNQUOTED THEN << c >> ELSE Utf8Hex(c)

\* a quote() without "/" in its safe set
quote_char_escaping_slash(c) ==
    IF c = "/" THEN << "%", "2", "F" >>
    ELSE IF c \in UNQUOTED THEN << c >> ELSE Utf8Hex(c)

quote_char(c) == IF c \in UNQUOTED THEN << c >> ELSE Utf8Hex(c)

RECURSIVE quote(_)
quote(s) == IF s = << >> THEN << >> ELSE quote_char(Head(s)) \o quote(Tail(s))

normalize_part_name(part_name) == lower(quote(part_name))

----------------------------------------------------------------------------
(* check_part_name *)

\* a second character class that has the square brackets too
PN_LAST_AND_BRACKETS ==
    Letters \cup Range(DIGITS) \cup
        { "-", "_", "~", "%", ":", "@", "!", "$", "&", "'", "(", ")", "*",
          "+", ",", ";", "=", "[", "]" }

\* the second character class of RE_PART_NAME: what a segment may end with
PN_LAST == Letters \cup Range(DIGITS) \cup
           { "-", "_", "~", "%", ":", "@", "!", "$", "&", "'", "(", ")", "*",
             "+", ",", ";", "=" }

\* the first character class of RE_PART_NAME: the second one and "."
PN_INNER == PN_LAST \cup { "." }

\* (/[INNER]*[LAST])+ covers all of t: t is "/"-led segments, each of them
\* non-empty, of INNER characters, and ending with a LAST character
PartNameBody(t) ==
    /\ Len(t) >= 2
    /\ t[1] = "/"
    /\ \A i \in 1..Len(t) :
          /\ t[i] = "/" \/ t[i] \in PN_INNER
          /\ t[i] = "/" => i < Len(t) /\ t[i + 1] # "/"
          /\ (t[i] # "/" /\ (i = Len(t) \/ t[i + 1] = "/")) => t[i] \in PN_LAST

\* RE_PART_NAME.match(s): Python's "$" also matches before a newline that ends s
RE_PART_NAME_match(s) ==
    \/ PartNameBody(s)
    \/ Len(s) >= 1 /\ s[Len(s)] = "\n" /\ PartNameBody(SubSeq(s, 1, Len(s) - 1))

\* RE_PART_NAME_FORBIDDEN.match(s): re.match looks only at the start of s
RE_PART_NAME_FORBIDDEN_match(s) ==
    \/ StartsWith(lower(s), << "%", "5", "c" >>)
    \/ StartsWith(lower(s), << "%", "2", "f" >>)

\* TRUE when check_part_name returns, FALSE when it raises ValueError
check_part_name(part_name) ==
    /\ RE_PART_NAME_match(part_name)
    /\ ~RE_PART_NAME_FORBIDDEN_match(part_name)

----------------------------------------------------------------------------
(* _rels_part_for *)

\* a relationships part kept in the _rels directory of the package root
_rels_part_at_root(part_name) ==
    << "/", "_", "r", "e", "l", "s", "/" >>
        \o LastPiece(part_name, "/") \o << ".", "r", "e", "l", "s" >>

_rels_part_for(part_name) ==
    ButLastPieces(part_name, "/") \o << "_", "r", "e", "l", "s", "/" >>
        \o LastPiece(part_name, "/") \o << ".", "r", "e", "l", "s" >>

----------------------------------------------------------------------------
(* part_realpath *)

\* s.split(c): the pieces of s between the occurrences of c, at least one piece
RECURSIVE Split(_, _)
Split(s, c) ==
    IF LastIndexOf(s, c) = 0 THEN << s >>
    ELSE Append(Split(SubSeq(s, 1, LastIndexOf(s, c) - 1), c), LastPiece(s, c))

\* c.join(pieces)
RECURSIVE Join(_, _)
Join(pieces, c) ==
    IF pieces = << >> THEN << >>
    ELSE IF Len(pieces) = 1 THEN pieces[1]
    ELSE Join(SubSeq(pieces, 1, Len(pieces) - 1), c) \o << c >> \o pieces[Len(pieces)]

\* the loop of part_realpath over path_segments; result.pop() on an empty list
\* raises IndexError, the one way the function fails
RECURSIVE walk_segments(_, _)
walk_segments(path_segments, result) ==
    IF path_segments = << >> THEN [ res |-> "ok", result |-> result ]
    ELSE IF Head(path_segments) = << "." >>
    THEN walk_segments(Tail(path_segments), result)
    ELSE IF Head(path_segments) = << ".", "." >>
    THEN IF result = << >>
         THEN [ res |-> "MalformedReference", result |-> result ]
         ELSE walk_segments(Tail(path_segments), SubSeq(result, 1, Len(result) - 1))
    ELSE walk_segments(Tail(path_segments), Append(result, Head(path_segments)))

\* part_realpath(part_name, source_part_name): the outcome and the name returned
part_realpath(part_name, source_part_name) ==
    LET source_segments == Split(source_part_name, "/")
        walked == walk_segments(Split(part_name, "/"),
                                SubSeq(source_segments, 1, Len(source_segments) - 1))
    IN  [ res |-> walked.res,
          value |-> IF walked.res = "ok" THEN Join(walked.result, "/") ELSE << >> ]

----------------------------------------------------------------------------
(* A Python dict: a sequence of [k, v] entries in insertion order *)

DictHas(d, key) == \E i \in 1..Len(d) : d[i].k = key

DictGet(d, key) == d[CHOOSE i \in 1..Len(d) : d[i].k = key].v

\* d[key] = value: an existing key keeps its place
DictSet(d, key, value) ==
    IF DictHas(d, key)
    THEN [ i \in 1..Len(d) |-> IF d[i].k = key THEN [ k |-> key, v |-> value ] ELSE d[i] ]
    ELSE Append(d, [ k |-> key, v |-> value ])

DictKeys(d) == { d[i].k : i \in 1..Len(d) }

----------------------------------------------------------------------------
(* ContentTypesData *)

\* ContentTypesData.get_content_type from its second statement on: part_name is
\* normalized; "None" when neither map has an entry
lookup_content_type(defaults, overr, part_name) ==
    IF DictHas(overr, part_name) THEN DictGet(overr, part_name)
    ELSE IF DictHas(defaults, LastPiece(LastPiece(part_name, "/"), "."))
    THEN DictGet(defaults, LastPiece(LastPiece(part_name, "/"), "."))
    ELSE "None"

\* ContentTypesData.get_content_type
get_content_type(defaults, overr, part_name) ==
    lookup_content_type(defaults, overr, normalize_part_name(part_name))

\* ContentTypesData.write_xml: the child elements of <Types>, in document order
write_xml(defaults, overr) ==
    [ i \in 1..Len(defaults) |->
        [ tag |-> "Default", key |-> defaults[i].k, ContentType |-> defaults[i].v ] ]
    \o
    [ i \in 1..Len(overr) |->
        [ tag |-> "Override", key |-> overr[i].k, ContentType |-> overr[i].v ] ]

\* a from_xml that takes Extension and PartName as they are written
RECURSIVE from_xml_keeping_keys(_)
from_xml_keeping_keys(elems) ==
    IF elems = << >> THEN [ default_types |-> << >>, overrides |-> << >> ]
    ELSE LET before == from_xml_keeping_keys(SubSeq(elems, 1, Len(elems) - 1))
             elem == elems[Len(elems)]
         IN  IF elem.tag = "Default"
             THEN [ before EXCEPT !.default_types = DictSet(@, elem.key, elem.ContentType) ]
             ELSE [ before EXCEPT !.overrides = DictSet(@, elem.key, elem.ContentType) ]

\* ContentTypesData.from_xml, as [default_types, overrides]
RECURSIVE from_xml(_)
from_xml(elems) ==
    IF elems = << >> THEN [ default_types |-> << >>, overrides |-> << >> ]
    ELSE LET before == from_xml(SubSeq(elems, 1, Len(elems) - 1))
             elem == elems[Len(elems)]
         IN  IF elem.tag = "Default"
             THEN [ before EXCEPT !.default_types =
                        DictSet(@, lower(elem.key), elem.ContentType) ]
             ELSE [ before EXCEPT !.overrides =
                        DictSet(@, normalize_part_name(elem.key), elem.ContentType) ]

----------------------------------------------------------------------------
(* The ZIP backend of the writer *)

CONTENT_TYPES_STREAM_NAME ==
    << "/", "[", "C", "o", "n", "t", "e", "n", "t", "_", "T", "y", "p", "e", "s", "]",
       ".", "x", "m", "l" >>

\* content_types_stream_name of a backend that declares no stream (None)
NoStreamName == << >>

RELATIONSHIPS_CONTENT_TYPE == "application/vnd.openxmlformats-package.relationships+xml"

\* ZipPackageWriter.create_item: a new archive entry name[1:], holding the data
\* written through the returned stream.  content_type and by are history, the
\* ZIP backend stores neither: by is "part", "stream" (the content-types stream)
\* or the number of the fragment handle that created the item.
create_item(its, name, content_type, data, by) ==
    Append(its, [ name |-> Tail(name), data |-> data,
                  content_type |-> content_type, by |-> by ])

ByPart == [ kind |-> "part", h |-> 0 ]
ByStream == [ kind |-> "stream", h |-> 0 ]
ByHandle(h) == [ kind |-> "fragment", h |-> h ]

----------------------------------------------------------------------------
(* OPCPackageWriter *)

\* open_part as it would be if it never added an Override
open_part_without_override(ov, its, name, content_type, data) ==
    IF ~check_part_name(name)
    THEN [ res |-> "MalformedName", overrides |-> ov, items |-> its ]
    ELSE IF /\ content_types_stream_name # NoStreamName
            /\ get_content_type(default_types, ov, name) # content_type
            /\ content_types_written
    THEN [ res |-> "InconsistentManifest", overrides |-> ov, items |-> its ]
    ELSE [ res |-> "ok", overrides |-> ov,
           items |-> create_item(its, name, content_type, data, ByPart) ]

\* open_part as it would be if it added the Override whether or not the stream
\* is written
open_part_ignoring_flush(ov, its, name, content_type, data) ==
    IF ~check_part_name(name)
    THEN [ res |-> "MalformedName", overrides |-> ov, items |-> its ]
    ELSE IF /\ content_types_stream_name # NoStreamName
            /\ get_content_type(default_types, ov, name) # content_type
    THEN [ res |-> "ok", overrides |-> DictSet(ov, name, content_type),
           items |-> create_item(its, name, content_type, data, ByPart) ]
    ELSE [ res |-> "ok", overrides |-> ov,
           items |-> create_item(its, name, content_type, data, ByPart) ]

\* OPCPackageWriter.open_part from its second statement on: name is normalized
open_normalized_part(ov, its, name, content_type, data) ==
    IF ~check_part_name(name)
    THEN [ res |-> "MalformedName", overrides |-> ov, items |-> its ]
    ELSE IF /\ content_types_stream_name # NoStreamName
            /\ get_content_type(default_types, ov, name) # content_type
    THEN IF content_types_written
         THEN [ res |-> "InconsistentManifest", overrides |-> ov, items |-> its ]
         ELSE [ res |-> "ok", overrides |-> DictSet(ov, name, content_type),
                items |-> create_item(its, name, content_type, data, ByPart) ]
    ELSE [ res |-> "ok", overrides |-> ov,
           items |-> create_item(its, name, content_type, data, ByPart) ]

\* OPCPackageWriter.open_part on the writer state (ov: overrides, its: items):
\* the outcome and the state it leaves
open_part(ov, its, name, content_type, data) ==
    open_normalized_part(ov, its, normalize_part_name(name), content_type, data)

\* OPCPackageWriter.write_relationships
write_relationships(ov, its, data, source) ==
    LET part_name == normalize_part_name(source)
    IN  IF part_name # << "/" >> /\ ~check_part_name(part_name)
        THEN [ res |-> "MalformedName", overrides |-> ov, items |-> its ]
        ELSE open_part(ov, its, _rels_part_for(part_name),
                       RELATIONSHIPS_CONTENT_TYPE, data)

\* a create_fragmented_part that adds its Override whether or not the stream
\* has been written
create_fragmented_part_ignoring_flush(ov, name, content_type) ==
    LET part_name == normalize_part_name(name)
    IN  IF ~check_part_name(part_name)
        THEN [ res |-> "MalformedName", overrides |-> ov, handle_name |-> name ]
        ELSE IF /\ content_types_stream_name # NoStreamName
                /\ get_content_type(default_types, ov, name) # content_type
        THEN [ res |-> "ok", overrides |-> DictSet(ov, name, content_type),
               handle_name |-> name ]
        ELSE [ res |-> "ok", overrides |-> ov, handle_name |-> name ]

\* OPCPackageWriter.create_fragmented_part: the outcome, the overrides it leaves
\* and the name the handle is given
create_fragmented_part(ov, name, content_type) ==
    LET part_name == normalize_part_name(name)
    IN  IF ~check_part_name(part_name)
        THEN [ res |-> "MalformedName", overrides |-> ov, handle_name |-> name ]
        ELSE IF /\ content_types_stream_name # NoStreamName
                /\ get_content_type(default_types, ov, name) # content_type
        THEN IF content_types_written
             THEN [ res |-> "InconsistentManifest", overrides |-> ov, handle_name |-> name ]
             ELSE [ res |-> "ok", overrides |-> DictSet(ov, name, content_type),
                    handle_name |-> name ]
        ELSE [ res |-> "ok", overrides |-> ov, handle_name |-> name ]

\* FragmentedPartWriterHandle.__init__; at is history: how many items the
\* archive held when the handle was made
new_handle(name, content_type, at) ==
    [ name |-> name, content_type |-> content_type, fragment_number |-> 0,
      finished |-> FALSE, at |-> at ]

\* the item name as it would be if no fragment were marked as the last
fragment_item_name_unsealed(name, fragment_number, is_last) ==
    name \o << "/", "[" >> \o IntToStr(fragment_number) \o << "]" >>
         \o << ".", "p", "i", "e", "c", "e" >>

\* the item name FragmentedPartWriterHandle.open formats
fragment_item_name(name, fragment_number, is_last) ==
    name \o << "/", "[" >> \o IntToStr(fragment_number) \o << "]" >>
         \o (IF is_last THEN << ".", "l", "a", "s", "t" >> ELSE << >>)
         \o << ".", "p", "i", "e", "c", "e" >>

\* FragmentedPartWriterHandle.open as it would be if it did not count fragments
fragment_open_uncounted(hs, its, h, is_last, data) ==
    IF hs[h].finished
    THEN [ res |-> "AlreadyFinished", handles |-> hs, items |-> its ]
    ELSE [ res |-> "ok",
           items |-> create_item(its,
                                 fragment_item_name(hs[h].name, hs[h].fragment_number,
                                                    is_last),
                                 hs[h].content_type, data, ByHandle(h)),
           handles |-> [ hs EXCEPT ![h].finished = is_last ] ]

\* FragmentedPartWriterHandle.open on handle h: the outcome and the state it leaves
fragment_open(hs, its, h, is_last, data) ==
    IF hs[h].finished
    THEN [ res |-> "AlreadyFinished", handles |-> hs, items |-> its ]
    ELSE [ res |-> "ok",
           items |-> create_item(its,
                                 fragment_item_name(hs[h].name, hs[h].fragment_number,
                                                    is_last),
                                 hs[h].content_type, data, ByHandle(h)),
           handles |-> [ hs EXCEPT ![h].fragment_number = @ + 1,
                                   ![h].finished = is_last ] ]

\* write_content_types_stream as it would be without the content_types_written flag
write_content_types_stream_unflagged(its, written) ==
    IF content_types_stream_name = NoStreamName
    THEN [ res |-> "OperationNotApplicable", items |-> its, written |-> written ]
    ELSE [ res |-> "ok", written |-> TRUE,
           items |-> create_item(its, content_types_stream_name, "application/xml",
                                 write_xml(default_types, overrides), ByStream) ]

\* OPCPackageWriter.write_content_types_stream: the outcome and the state it leaves
write_content_types_stream(its, written) ==
    IF content_types_stream_name = NoStreamName
    THEN [ res |-> "OperationNotApplicable", items |-> its, written |-> written ]
    ELSE IF written
    THEN [ res |-> "ok", items |-> its, written |-> written ]
    ELSE [ res |-> "ok", written |-> TRUE,
           items |-> create_item(its, content_types_stream_name, "application/xml",
                                 write_xml(default_types, overrides), ByStream) ]

\* OPCPackageWriter.close, which ZipPackageWriter.close runs before it closes the archive
close(its, written) == write_content_types_stream(its, written)

----------------------------------------------------------------------------
(* The writer's operations *)

TEXT_PLAIN == "text/plain"
IMAGE_PNG == "image/png"
ContentTypePool == { TEXT_PLAIN, IMAGE_PNG }

TXT == << "t", "x", "t" >>
NAME_A_TXT == << "/", "a", ".", "t", "x", "t" >>
NAME_A_TXT_UPPER == << "/", "A", ".", "t", "x", "t" >>
NAME_B_C == << "/", "b", " ", "c" >>

\* the names a caller passes to open_part: one that normalization changes, and
\* the name of the content-types stream
PartNamePool == { NAME_A_TXT_UPPER, CONTENT_TYPES_STREAM_NAME }

\* the names a caller passes to create_fragmented_part: two spellings of one part
FragmentedNamePool == { NAME_A_TXT, NAME_A_TXT_UPPER }

\* the sources a caller passes to write_relationships
SourcePool == { << "/" >> }

\* an OPCRelationship
REL_1 == [ id |-> "r1", type |-> "t1", target |-> << "a", ".", "t", "x", "t" >>,
           target_mode |-> "INTERNAL" ]

\* the TargetMode of a Relationship element without that attribute
NO_TARGET_MODE == "(none)"

\* OPCTargetMode.serialize: self.name.capitalize()
serialize(target_mode) == IF target_mode = "INTERNAL" THEN "Internal" ELSE "External"

\* OPCPackageWriter._write_relationships: the child elements of <Relationships>
_write_relationships(relationships) ==
    [ i \in 1..Len(relationships) |->
        [ tag |-> "Relationship",
          Target |-> relationships[i].target,
          Id |-> relationships[i].id,
          Type |-> relationships[i].type,
          TargetMode |-> serialize(relationships[i].target_mode) ] ]

\* the parts, fragments and fragment handles created so far
CreatedCount ==
    Cardinality({ i \in 1..Len(items) : items[i].by # ByStream }) + Len(handles)

Call(op, res) == [ op |-> op, res |-> res ]

\* ZipPackageWriter.close has not closed the archive: a closed ZipFile takes no
\* further entry
ArchiveOpen == last # Call("close", "ok")

\* what a caller writes to the stream of the item it creates next: nothing, or
\* one byte that tells the item from every other one
Payloads == { << >>, << Len(items) + 1 >> }

OpenPart(name, content_type, data) ==
    \E r \in { open_part(overrides, items, name, content_type, data) } :
        /\ ArchiveOpen
        /\ overrides' = r.overrides
        /\ items' = r.items
        /\ last' = Call("open_part", r.res)
        /\ UNCHANGED << content_types_stream_name, default_types,
                        content_types_written, handles, nameVars, readVars >>

WriteRelationships(relationships, source) ==
    \E r \in { write_relationships(overrides, items,
                                 _write_relationships(relationships), source) } :
        /\ ArchiveOpen
        /\ overrides' = r.overrides
        /\ items' = r.items
        /\ last' = Call("write_relationships", r.res)
        /\ UNCHANGED << content_types_stream_name, default_types,
                        content_types_written, handles, nameVars, readVars >>

CreateFragmentedPart(name, content_type) ==
    \E r \in { create_fragmented_part(overrides, name, content_type) } :
        /\ ArchiveOpen
        /\ overrides' = r.overrides
        /\ handles' = IF r.res = "ok"
                      THEN Append(handles, new_handle(r.handle_name, content_type, Len(items)))
                      ELSE handles
        /\ last' = Call("create_fragmented_part", r.res)
        /\ UNCHANGED << content_types_stream_name, default_types,
                        content_types_written, items, nameVars, readVars >>

FragmentOpen(h, is_last, data) ==
    \E r \in { fragment_open(handles, items, h, is_last, data) } :
        /\ ArchiveOpen
        /\ items' = r.items
        /\ handles' = r.handles
        /\ last' = Call("open", r.res)
        /\ UNCHANGED << content_types_stream_name, default_types, overrides,
                        content_types_written, nameVars, readVars >>

WriteContentTypesStream ==
    \E r \in { write_content_types_stream(items, content_types_written) } :
        /\ ArchiveOpen
        /\ items' = r.items
        /\ content_types_written' = r.written
        /\ last' = Call("write_content_types_stream", r.res)
        /\ UNCHANGED << content_types_stream_name, default_types, overrides, handles,
                        nameVars, readVars >>

Close ==
    \E r \in { close(items, content_types_written) } :
        /\ items' = r.items
        /\ content_types_written' = r.written
        /\ last' = Call("close", r.res)
        /\ UNCHANGED << content_types_stream_name, default_types, overrides, handles,
                        nameVars, readVars >>

----------------------------------------------------------------------------
(* OPCPackageReader over the ZIP backend *)

\* ZipPackageReader.list_items: the names of the archive's entries, each with a
\* leading "/", but for the entries that stand for directories
list_items(its) ==
    LET files == SelectSeq(its, LAMBDA it : it.name[Len(it.name)] # "/")
    IN  [ i \in 1..Len(files) |-> << "/" >> \o files[i].name ]

\* ZipPackageReader.open_item: ZipFile.open finds the entry name[1:], the last of
\* that name; the entry's place in the archive, or 0 for its KeyError
open_item(its, name) ==
    LET found == { i \in 1..Len(its) : its[i].name = Tail(name) }
    IN  IF found = { } THEN 0 ELSE CHOOSE i \in found : \A j \in found : j <= i

IsDigits(s) == Len(s) >= 1 /\ \A i \in 1..Len(s) : s[i] \in Range(DIGITS)

\* what RE_FRAGMENT_ITEMS matches of s from the "[" at position open on:
\* [digits] then an optional "?last" then "?piece", letters in either case
FragmentSuffixAt(s, open) ==
    LET closing == { j \in (open + 2)..Len(s) :
                       s[j] = "]" /\ IsDigits(SubSeq(s, open + 1, j - 1)) }
        rest(j) == lower(SubSeq(s, j + 1, Len(s)))
        piece(t) == Len(t) = 6 /\ t[1] # "\n" /\ Tail(t) = << "p", "i", "e", "c", "e" >>
        last_piece(t) == /\ Len(t) = 11
                         /\ t[1] # "\n"
                         /\ SubSeq(t, 2, 5) = << "l", "a", "s", "t" >>
                         /\ piece(SubSeq(t, 6, 11))
    IN  { j \in closing : piece(rest(j)) \/ last_piece(rest(j)) }

\* RE_FRAGMENT_ITEMS.match(item_name): whether it matches, and groups 1 and 2
RE_FRAGMENT_ITEMS_match(item_name) ==
    LET s == IF Len(item_name) >= 1 /\ item_name[Len(item_name)] = "\n"
             THEN SubSeq(item_name, 1, Len(item_name) - 1)
             ELSE item_name
        opens == { i \in 2..Len(s) :
                     /\ s[i] = "[" /\ s[i - 1] = "/"
                     /\ FragmentSuffixAt(s, i) # { }
                     /\ \A k \in 1..(i - 2) : s[k] # "\n" }
    IN  IF opens = { }
        THEN [ matched |-> FALSE, part_name |-> << >>, number |-> << >> ]
        ELSE LET i == CHOOSE o \in opens : \A p \in opens : p <= o
                 j == CHOOSE c \in FragmentSuffixAt(s, i) : TRUE
             IN  [ matched |-> TRUE, part_name |-> SubSeq(s, 1, i - 2),
                   number |-> SubSeq(s, i + 1, j - 1) ]

\* RE_RELS_PARTS.match(name): (anything/)_rels/(no slash)?rels, in either case
RE_RELS_PARTS_match(name) ==
    LET s == lower(IF Len(name) >= 1 /\ name[Len(name)] = "\n"
                   THEN SubSeq(name, 1, Len(name) - 1) ELSE name)
        file == LastPiece(s, "/")
        dir == ButLastPieces(s, "/")
    IN  /\ Len(file) >= 5
        /\ SubSeq(file, Len(file) - 3, Len(file)) = << "r", "e", "l", "s" >>
        /\ file[Len(file) - 4] # "\n"
        /\ EndsWith(dir, << "/", "_", "r", "e", "l", "s", "/" >>)
        /\ \A i \in 1..Len(dir) : dir[i] # "\n"

\* ZipPackageReader.content_types_stream_name
READER_CONTENT_TYPES_STREAM_NAME == normalize_part_name(CONTENT_TYPES_STREAM_NAME)

PartDescriptor(content_type, fragmented, physical_item_name) ==
    [ content_type |-> content_type, fragmented |-> fragmented,
      physical_item_name |-> physical_item_name ]

\* a first loop in which a fragment item of any number declares its part
RECURSIVE find_parts_of_any_fragment(_)
find_parts_of_any_fragment(names) ==
    IF names = << >> THEN << >>
    ELSE LET parts == find_parts_of_any_fragment(SubSeq(names, 1, Len(names) - 1))
             item_name == names[Len(names)]
             fragment_match == RE_FRAGMENT_ITEMS_match(item_name)
         IN  IF fragment_match.matched
             THEN DictSet(parts, normalize_part_name(fragment_match.part_name),
                          PartDescriptor("", TRUE, fragment_match.part_name))
             ELSE DictSet(parts, normalize_part_name(item_name),
                          PartDescriptor("", FALSE, item_name))

\* the first loop of OPCPackageReader._init_data over the listed item names
RECURSIVE find_parts(_)
find_parts(names) ==
    IF names = << >> THEN << >>
    ELSE LET parts == find_parts(SubSeq(names, 1, Len(names) - 1))
             item_name == names[Len(names)]
             fragment_match == RE_FRAGMENT_ITEMS_match(item_name)
         IN  IF fragment_match.matched
             THEN IF fragment_match.number # << "0" >>
                  THEN parts
                  ELSE DictSet(parts, normalize_part_name(fragment_match.part_name),
                               PartDescriptor("", TRUE, fragment_match.part_name))
             ELSE DictSet(parts, normalize_part_name(item_name),
                          PartDescriptor("", FALSE, item_name))

\* one fragment of a part as FragmentedPartReader names it
piece_name(name, fragment_number, is_last) ==
    name \o << "/", "[" >> \o IntToStr(fragment_number) \o << "]" >>
         \o (IF is_last THEN << ".", "l", "a", "s", "t" >> ELSE << >>)
         \o << ".", "p", "i", "e", "c", "e" >>

\* self._current_item_handle.close() on the stream r.  log is history: the
\* entries whose handles were opened and closed, in that order
handle_close(r) ==
    IF r.closed THEN r
    ELSE [ r EXCEPT !.closed = TRUE,
                    !.log = Append(@, [ op |-> "close", item |-> r.item ]) ]

\* FragmentedPartReader._open_next_item on the stream r: the outcome and the
\* stream it leaves.  item and pos are the open ZIP entry and the read position
\* in it, closed whether that entry's handle has been closed
_open_next_item(its, r) ==
    LET piece == open_item(its, piece_name(r.name, r.fragment_number, FALSE))
        last_piece == open_item(its, piece_name(r.name, r.fragment_number, TRUE))
    IN  IF piece # 0
        THEN [ res |-> "ok",
               r |-> [ r EXCEPT !.item = piece, !.pos = 0, !.closed = FALSE,
                                !.fragment_number = @ + 1,
                                !.log = Append(@, [ op |-> "open", item |-> piece ]) ] ]
        ELSE IF last_piece # 0
        THEN [ res |-> "ok",
               r |-> [ r EXCEPT !.finished = TRUE, !.item = last_piece, !.pos = 0,
                                !.closed = FALSE, !.fragment_number = @ + 1,
                                !.log = Append(@, [ op |-> "open", item |-> last_piece ]) ] ]
        ELSE [ res |-> "MissingFragment", r |-> [ r EXCEPT !.finished = TRUE ] ]

\* FragmentedPartReader.__init__
FragmentedPartReader(its, name) ==
    _open_next_item(its, [ name |-> name, fragment_number |-> 0, finished |-> FALSE,
                           item |-> 0, pos |-> 0, closed |-> TRUE, log |-> << >> ])

\* ZipExtFile.read(size) on the open entry: all that is left of it when size is
\* negative, else up to size bytes
item_read(its, r, size) ==
    LET data == its[r.item].data
        n == IF size < 0 \/ size > Len(data) - r.pos THEN Len(data) - r.pos ELSE size
    IN  [ result |-> SubSeq(data, r.pos + 1, r.pos + n), r |-> [ r EXCEPT !.pos = @ + n ] ]

\* the loop of FragmentedPartReader.read as it would be if it never went on to
\* the next fragment
read_loop_one_fragment(its, r, size, result) ==
    [ res |-> "ok", r |-> r, result |-> result ]

\* the loop of FragmentedPartReader.read as it would be if it took a missing
\* fragment for the end of the part
RECURSIVE read_loop_truncating(_, _, _, _)
read_loop_truncating(its, r, size, result) ==
    IF (size = -1 \/ (0 = Len(result) /\ Len(result) < size)) /\ ~r.finished
    THEN LET next == _open_next_item(its, handle_close(r))
         IN  IF next.res # "ok"
             THEN [ res |-> "ok", r |-> [ next.r EXCEPT !.closed = FALSE ],
                    result |-> result ]
             ELSE LET more == item_read(its, next.r, size)
                  IN  read_loop_truncating(its, more.r, size, result \o more.result)
    ELSE [ res |-> "ok", r |-> r, result |-> result ]

\* the loop of FragmentedPartReader.read as it would be if it left the
\* fragment it has read open
RECURSIVE read_loop_leaving_open(_, _, _, _)
read_loop_leaving_open(its, r, size, result) ==
    IF (size = -1 \/ (0 = Len(result) /\ Len(result) < size)) /\ ~r.finished
    THEN LET next == _open_next_item(its, r)
         IN  IF next.res # "ok"
             THEN [ res |-> next.res, r |-> next.r, result |-> << >> ]
             ELSE LET more == item_read(its, next.r, size)
                  IN  read_loop_leaving_open(its, more.r, size, result \o more.result)
    ELSE [ res |-> "ok", r |-> r, result |-> result ]

\* the loop of FragmentedPartReader.read
RECURSIVE read_loop(_, _, _, _)
read_loop(its, r, size, result) ==
    IF (size = -1 \/ (0 = Len(result) /\ Len(result) < size)) /\ ~r.finished
    THEN LET next == _open_next_item(its, handle_close(r))
         IN  IF next.res # "ok"
             THEN [ res |-> next.res, r |-> next.r, result |-> << >> ]
             ELSE LET more == item_read(its, next.r, size)
                  IN  read_loop(its, more.r, size, result \o more.result)
    ELSE [ res |-> "ok", r |-> r, result |-> result ]

\* FragmentedPartReader.read(size); reading a closed ZIP entry is a ValueError
read(its, r, size) ==
    IF r.closed
    THEN [ res |-> "IOFailure", r |-> r, result |-> << >> ]
    ELSE LET first == item_read(its, r, size)
         IN  read_loop(its, first.r, size, first.result)

\* OPCPackageReader.open_part followed by one read() of the whole part
read_part(its, parts, name) ==
    IF ~DictHas(parts, normalize_part_name(name))
    THEN [ res |-> "NotFound", result |-> << >> ]
    ELSE LET part_descriptor == DictGet(parts, normalize_part_name(name))
         IN  IF part_descriptor.fragmented
             THEN LET stream == FragmentedPartReader(its, part_descriptor.physical_item_name)
                  IN  IF stream.res # "ok"
                      THEN [ res |-> stream.res, result |-> << >> ]
                      ELSE LET all == read(its, stream.r, -1)
                           IN  [ res |-> all.res, result |-> all.result ]
             ELSE LET item == open_item(its, part_descriptor.physical_item_name)
                  IN  IF item = 0
                      THEN [ res |-> "NotFound", result |-> << >> ]
                      ELSE [ res |-> "ok", result |-> its[item].data ]

\* the second half of OPCPackageReader._init_data: every part but the
\* content-types stream is given its content type
attach_content_types(parts, content_types) ==
    [ i \in 1..Len(parts) |->
        IF parts[i].k = READER_CONTENT_TYPES_STREAM_NAME THEN parts[i]
        ELSE [ parts[i] EXCEPT !.v.content_type =
                 get_content_type(content_types.default_types, content_types.overrides,
                                  parts[i].k) ] ]

\* an _init_data that lists a part without a content type as it is
_init_data_lenient(its) ==
    LET found == find_parts(list_items(its))
        stream == read_part(its, found, READER_CONTENT_TYPES_STREAM_NAME)
    IN  IF stream.res # "ok"
        THEN [ res |-> stream.res, parts |-> found ]
        ELSE [ res |-> "ok",
               parts |-> SelectSeq(attach_content_types(found, from_xml(stream.result)),
                                   LAMBDA p : p.k # READER_CONTENT_TYPES_STREAM_NAME) ]

\* OPCPackageReader._init_data over the archive: the outcome and _parts
_init_data(its) ==
    LET found == find_parts(list_items(its))
        stream == read_part(its, found, READER_CONTENT_TYPES_STREAM_NAME)
    IN  IF stream.res # "ok"
        THEN [ res |-> stream.res, parts |-> found ]
        ELSE LET typed == attach_content_types(found, from_xml(stream.result))
             IN  IF \E i \in 1..Len(typed) :
                        /\ typed[i].k # READER_CONTENT_TYPES_STREAM_NAME
                        /\ typed[i].v.content_type = "None"
                 THEN [ res |-> "UnknownContentType", parts |-> typed ]
                 ELSE [ res |-> "ok",
                        parts |-> SelectSeq(typed, LAMBDA p :
                                      p.k # READER_CONTENT_TYPES_STREAM_NAME) ]

\* OPCPackageReader.list_parts: (normalized name, content type) in _parts' order
list_parts(parts, include_rels_parts) ==
    LET listed == SelectSeq(parts, LAMBDA p :
                      include_rels_parts \/ ~RE_RELS_PARTS_match(p.k))
    IN  [ i \in 1..Len(listed) |-> << listed[i].k, listed[i].v.content_type >> ]

\* what open_part returns: the archive entry of a part that is not fragmented
\* (item), the FragmentedPartReader of one that is (stream)
Opened(res, fragmented, item, stream) ==
    [ res |-> res, fragmented |-> fragmented, item |-> item, stream |-> stream ]

\* an open_part that looks the name up as it is given
open_part_by_given_name(its, parts, name) ==
    IF ~DictHas(parts, name)
    THEN Opened("NotFound", FALSE, 0, << >>)
    ELSE LET part_descriptor == DictGet(parts, name)
             stream == FragmentedPartReader(its, part_descriptor.physical_item_name)
             item == open_item(its, part_descriptor.physical_item_name)
         IN  IF part_descriptor.fragmented
             THEN IF stream.res # "ok"
                  THEN Opened(stream.res, TRUE, 0, << >>)
                  ELSE Opened("ok", TRUE, 0, << stream.r >>)
             ELSE IF item = 0
                  THEN Opened("NotFound", FALSE, 0, << >>)
                  ELSE Opened("ok", FALSE, item, << >>)

\* OPCPackageReader.open_part; every failure is a KeyError in the code
reader_open_part(its, parts, name) ==
    IF ~DictHas(parts, normalize_part_name(name))
    THEN Opened("NotFound", FALSE, 0, << >>)
    ELSE LET part_descriptor == DictGet(parts, normalize_part_name(name))
             stream == FragmentedPartReader(its, part_descriptor.physical_item_name)
             item == open_item(its, part_descriptor.physical_item_name)
         IN  IF part_descriptor.fragmented
             THEN IF stream.res # "ok"
                  THEN Opened(stream.res, TRUE, 0, << >>)
                  ELSE Opened("ok", TRUE, 0, << stream.r >>)
             ELSE IF item = 0
                  THEN Opened("NotFound", FALSE, 0, << >>)
                  ELSE Opened("ok", FALSE, item, << >>)

\* all the bytes, or elements, read from what open_part returned
read_opened(its, part) ==
    IF part.fragmented
    THEN LET all == read(its, part.stream[1], -1)
         IN  [ res |-> all.res, result |-> all.result ]
    ELSE [ res |-> "ok", result |-> its[part.item].data ]

\* OPCTargetMode.from_serialization: cls[serialization.upper()], a KeyError for
\* any other name
from_serialization(serialization) ==
    IF serialization \in { "Internal", "internal", "INTERNAL" } THEN "INTERNAL"
    ELSE IF serialization \in { "External", "external", "EXTERNAL" } THEN "EXTERNAL"
    ELSE "KeyError"

\* OPCPackageReader._read_relationships over the elements of the part
_read_relationships(elems) ==
    LET relationship_elems == SelectSeq(elems, LAMBDA elem : elem.tag = "Relationship")
        target_mode(elem) ==
            from_serialization(IF elem.TargetMode = NO_TARGET_MODE THEN "Internal"
                               ELSE elem.TargetMode)
    IN  IF \E i \in 1..Len(relationship_elems) :
               target_mode(relationship_elems[i]) = "KeyError"
        THEN [ res |-> "MalformedRelationship", result |-> << >> ]
        ELSE [ res |-> "ok",
               result |-> [ i \in 1..Len(relationship_elems) |->
                   [ id |-> relationship_elems[i].Id,
                     type |-> relationship_elems[i].Type,
                     target |-> relationship_elems[i].Target,
                     target_mode |-> target_mode(relationship_elems[i]) ] ] ]

\* a get_raw_relationships that lets the KeyError of open_part through
get_raw_relationships_uncaught(its, parts, part_name) ==
    LET rels_part == reader_open_part(its, parts, _rels_part_for(part_name))
        read_rels == read_opened(its, rels_part)
    IN  IF rels_part.res # "ok" THEN [ res |-> rels_part.res, result |-> << >> ]
        ELSE IF read_rels.res # "ok" THEN read_rels
        ELSE _read_relationships(read_rels.result)

\* list(OPCPackageReader.get_raw_relationships(part_name))
get_raw_relationships(its, parts, part_name) ==
    LET rels_part == reader_open_part(its, parts, _rels_part_for(part_name))
        read_rels == read_opened(its, rels_part)
    IN  IF rels_part.res # "ok" THEN [ res |-> "ok", result |-> << >> ]
        ELSE IF read_rels.res # "ok" THEN read_rels
        ELSE _read_relationships(read_rels.result)

\* the loop of get_related_parts_by_type over the relationships
RECURSIVE group_by_type(_, _, _)
group_by_type(relationships, part_name, result) ==
    IF relationships = << >> THEN [ res |-> "ok", result |-> result ]
    ELSE LET relationship == Head(relationships)
             realpath == part_realpath(relationship.target, part_name)
             related == IF DictHas(result, relationship.type)
                        THEN DictGet(result, relationship.type) ELSE << >>
         IN  IF relationship.target_mode # "INTERNAL"
             THEN group_by_type(Tail(relationships), part_name, result)
             ELSE IF realpath.res # "ok"
             THEN [ res |-> realpath.res, result |-> << >> ]
             ELSE group_by_type(Tail(relationships), part_name,
                      DictSet(result, relationship.type,
                              Append(related, normalize_part_name(realpath.value))))

\* OPCPackageReader.get_related_parts_by_type
get_related_parts_by_type(its, parts, part_name) ==
    LET raw == get_raw_relationships(its, parts, part_name)
    IN  IF raw.res # "ok" THEN raw ELSE group_by_type(raw.result, part_name, << >>)

----------------------------------------------------------------------------
(* OPCCoreProperties *)

\* OPCCoreProperties.ATTRIBUTES: the attributes in the order they are written,
\* each with its tag and whether its functions are those of the keywords
ATTRIBUTES ==
    << [ attr |-> "category", tag |-> "cp:category", keywords |-> FALSE ],
       [ attr |-> "contentStatus", tag |-> "cp:contentStatus", keywords |-> FALSE ],
       [ attr |-> "created", tag |-> "dcterms:created", keywords |-> FALSE ],
       [ attr |-> "creator", tag |-> "dc:creator", keywords |-> FALSE ],
       [ attr |-> "description", tag |-> "dc:description", keywords |-> FALSE ],
       [ attr |-> "identifier", tag |-> "dc:identifier", keywords |-> FALSE ],
       [ attr |-> "keywords", tag |-> "cp:keywords", keywords |-> TRUE ],
       [ attr |-> "language", tag |-> "dc:language", keywords |-> FALSE ],
       [ attr |-> "lastModifiedBy", tag |-> "cp:lastModifiedBy", keywords |-> FALSE ],
       [ attr |-> "lastPrinted", tag |-> "cp:lastPrinted", keywords |-> FALSE ],
       [ attr |-> "modified", tag |-> "dcterms:modified", keywords |-> FALSE ],
       [ attr |-> "revision", tag |-> "cp:revision", keywords |-> FALSE ],
       [ attr |-> "subject", tag |-> "dc:subject", keywords |-> FALSE ],
       [ attr |-> "title", tag |-> "dc:title", keywords |-> FALSE ],
       [ attr |-> "version", tag |-> "cp:version", keywords |-> FALSE ] >>

\* OPCCoreProperties(): every attribute None.  An attribute is << >> when it is
\* None and << value >> when it is set
OPCCoreProperties == [ a \in { ATTRIBUTES[i].attr : i \in 1..Len(ATTRIBUTES) } |-> << >> ]

\* an XML element: its tag, its text and its children
Element(tag, text, children) == [ tag |-> tag, text |-> text, children |-> children ]

\* to_xml_tag: an element of that tag, the content is not written
to_xml_tag(tag, content) == Element(tag, "", << >>)

\* keywords_to_xml: the outcome and the element.  Of the first keyword, setting
\* the lang of a value is a TypeError (an element is indexed by numbers) and
\* appendChild an AttributeError; neither is reached when there is no keyword
keywords_to_xml(tag, content) ==
    IF content = << >> THEN [ res |-> "ok", elem |-> Element(tag, "", << >>) ]
    ELSE IF content[1].lang \notin { "None", "" }
    THEN [ res |-> "TypeError", elem |-> Element(tag, "", << >>) ]
    ELSE [ res |-> "AttributeError", elem |-> Element(tag, "", << >>) ]

\* extract_str
extract_str(el) == ""

\* extract_keywords
extract_keywords(el) == << >>

\* OPCCoreProperties.write_xml: the outcome and the children of <coreProperties>
\* written before it
RECURSIVE OPCCoreProperties_write_xml(_, _)
OPCCoreProperties_write_xml(self, n) ==
    IF n = 0 THEN [ res |-> "ok", file |-> << >> ]
    ELSE LET before == OPCCoreProperties_write_xml(self, n - 1)
             value == self[ATTRIBUTES[n].attr]
             serialized == IF ATTRIBUTES[n].keywords
                           THEN keywords_to_xml(ATTRIBUTES[n].tag, value[1])
                           ELSE [ res |-> "ok", elem |-> to_xml_tag(ATTRIBUTES[n].tag, value[1]) ]
         IN  IF before.res # "ok" \/ value = << >> THEN before
             ELSE IF serialized.res # "ok"
             THEN [ res |-> serialized.res, file |-> before.file ]
             ELSE [ res |-> "ok", file |-> Append(before.file, serialized.elem) ]

\* OPCCoreProperties.from_xml over the children of the root element, which
\* iterparse gives after their own children
RECURSIVE OPCCoreProperties_from_xml(_)
OPCCoreProperties_from_xml(file) ==
    IF file = << >> THEN OPCCoreProperties
    ELSE LET result == OPCCoreProperties_from_xml(SubSeq(file, 1, Len(file) - 1))
             elem == file[Len(file)]
             known == { i \in 1..Len(ATTRIBUTES) : ATTRIBUTES[i].tag = elem.tag }
         IN  IF known = { } THEN result
             ELSE LET a == ATTRIBUTES[CHOOSE i \in known : TRUE]
                  IN  [ result EXCEPT ![a.attr] =
                          << IF a.keywords THEN extract_keywords(elem)
                             ELSE extract_str(elem) >> ]

RELATIONSHIP_TYPE_CORE_PROPERTIES ==
    "http://schemas.openxmlformats.org/package/2006/relationships/metadata/core-properties"

DEFAULT_CORE_PROPERTIES_NAME ==
    << "/", "d", "o", "c", "P", "r", "o", "p", "s", "/", "c", "o", "r", "e", ".", "x", "m", "l" >>

\* the end of get_core_properties: what was read of the part is decoded
core_properties_decoded(file) ==
    IF file.res # "ok" THEN [ res |-> file.res, result |-> << >> ]
    ELSE [ res |-> "ok", result |-> << OPCCoreProperties_from_xml(file.result) >> ]

\* the part that get_core_properties opened is read
core_properties_from(its, part) ==
    IF part.res # "ok" THEN [ res |-> part.res, result |-> << >> ]
    ELSE core_properties_decoded(read_opened(its, part))

\* the related parts of the package root lead to the Core Properties part, the
\* target of the first relationship of the Core Properties type
core_properties_of(its, parts, related) ==
    IF related.res # "ok" THEN [ res |-> related.res, result |-> << >> ]
    ELSE IF ~DictHas(related.result, RELATIONSHIP_TYPE_CORE_PROPERTIES)
    THEN [ res |-> "ok", result |-> << OPCCoreProperties >> ]
    ELSE core_properties_from(
             its,
             reader_open_part(its, parts,
                              DictGet(related.result, RELATIONSHIP_TYPE_CORE_PROPERTIES)[1]))

\* OPCPackageReader.get_core_properties: the part the first relationship of the
\* Core Properties type of the package root leads to, decoded; an empty object
\* when the root has no such relationship
get_core_properties(its, parts) ==
    core_properties_of(its, parts, get_related_parts_by_type(its, parts, << "/" >>))

CodecCall(op, res, file, result) ==
    [ op |-> op, res |-> res, file |-> file, result |-> result ]

NoCodecCall == CodecCall("none", "ok", << >>, << >>)

----------------------------------------------------------------------------
(* The writer, driven by any sequence of calls *)

NameCall(op, source, value) == [ op |-> op, source |-> source, value |-> value ]

NoNameCall == NameCall("none", << >>, << >>)

IdleNames == pn_in = << >> /\ pn_out = "idle" /\ pn_call = NoNameCall

StreamCall(op, size, res, result) ==
    [ op |-> op, size |-> size, res |-> res, result |-> result ]

ReaderCall(op, name, include_rels_parts, res, result) ==
    [ op |-> op, name |-> name, include_rels_parts |-> include_rels_parts,
      res |-> res, result |-> result ]

NoReaderCall == ReaderCall("none", << >>, FALSE, "ok", << >>)

IdleRead ==
    /\ fr = << >>
    /\ fr_last = StreamCall("none", 0, "ok", << >>)
    /\ fr_out = << >>
    /\ opened = "none"
    /\ _parts = << >>
    /\ reader_last = NoReaderCall
    /\ cp = OPCCoreProperties
    /\ cp_last = NoCodecCall

\* ZipPackageWriter.__init__; a caller may register Defaults before the first call
Init ==
    /\ content_types_stream_name = CONTENT_TYPES_STREAM_NAME
    /\ default_types = << [ k |-> TXT, v |-> TEXT_PLAIN ] >>
    /\ overrides = << >>
    /\ content_types_written = FALSE
    /\ items = << >>
    /\ handles = << >>
    /\ last = Call("__init__", "ok")
    /\ IdleNames
    /\ IdleRead

\* the step leaves at most n parts, fragment handles and fragments
Within(n) == CreatedCount' <= n

Next ==
    \/ \E name \in PartNamePool, content_type \in ContentTypePool :
          OpenPart(name, content_type, << >>) /\ Within(MaxCreated)
    \/ \E name \in FragmentedNamePool, content_type \in ContentTypePool :
          CreateFragmentedPart(name, content_type) /\ Within(MaxCreated)
    \/ \E h \in 1..Len(handles), is_last \in BOOLEAN :
          FragmentOpen(h, is_last, << >>) /\ Within(MaxCreated)
    \/ \E source \in SourcePool :
          WriteRelationships(<< REL_1 >>, source) /\ Within(MaxCreated)
    \/ WriteContentTypesStream
    \/ Close

Spec == Init /\ [][Next]_vars

\* a writer over either kind of backend: one that declares a content-types
\* stream, and one whose format carries the content types itself
InitAnyBackend ==
    /\ content_types_stream_name \in { NoStreamName, CONTENT_TYPES_STREAM_NAME }
    /\ default_types = << >>
    /\ overrides = << >>
    /\ content_types_written = FALSE
    /\ items = << >>
    /\ handles = << >>
    /\ last = Call("__init__", "ok")
    /\ IdleNames
    /\ IdleRead

SpecAnyBackend == InitAnyBackend /\ [][Next]_vars

----------------------------------------------------------------------------
(* The part-name functions, applied to any short string *)

\* the characters names are made of: the separator, the dot, what spells %2F and
\* %5C in either case, a non-ASCII letter, a line end and a backslash
NameAlphabet == { "/", ".", "%", "2", "5", "F", "c", "ö", "\n", "\\" }

InitNames ==
    /\ content_types_stream_name = CONTENT_TYPES_STREAM_NAME
    /\ default_types = << >>
    /\ overrides = << >>
    /\ content_types_written = FALSE
    /\ items = << >>
    /\ handles = << >>
    /\ last = Call("__init__", "ok")
    /\ pn_in \in SeqsUpTo(NameAlphabet, MaxNameLen)
    /\ pn_out = "idle"
    /\ pn_call = NoNameCall
    /\ IdleRead

\* check_part_name(pn_in)
CheckPartName ==
    /\ pn_out = "idle"
    /\ pn_out' = IF check_part_name(pn_in) THEN "ok" ELSE "MalformedName"
    /\ pn_call' = NameCall("check_part_name", << >>, << >>)
    /\ UNCHANGED << writerVars, pn_in, readVars >>

\* normalize_part_name(pn_in)
NormalizePartName ==
    /\ pn_out = "idle"
    /\ pn_out' = "ok"
    /\ pn_call' = NameCall("normalize_part_name", << >>, normalize_part_name(pn_in))
    /\ UNCHANGED << writerVars, pn_in, readVars >>

NextNames == CheckPartName \/ NormalizePartName

SpecNames == InitNames /\ [][NextNames]_vars

----------------------------------------------------------------------------
(* part_realpath, applied to any short reference and a source part *)

\* the characters references are made of
ReferenceAlphabet == { "/", ".", "c" }

\* the parts that hold the reference: the package root, a part at the top and
\* one in a directory
ReferenceSources == { << "/" >>, << "/", "c" >>, << "/", "c", "/", "c" >> }

InitResolve ==
    /\ content_types_stream_name = CONTENT_TYPES_STREAM_NAME
    /\ default_types = << >>
    /\ overrides = << >>
    /\ content_types_written = FALSE
    /\ items = << >>
    /\ handles = << >>
    /\ last = Call("__init__", "ok")
    /\ pn_in \in SeqsUpTo(ReferenceAlphabet, MaxReferenceLen)
    /\ pn_out = "idle"
    /\ pn_call = NoNameCall
    /\ IdleRead

\* part_realpath(pn_in, source_part_name)
PartRealpath(source_part_name) ==
    /\ pn_out = "idle"
    /\ \E r \in { part_realpath(pn_in, source_part_name) } :
          /\ pn_out' = r.res
          /\ pn_call' = NameCall("part_realpath", source_part_name, r.value)
    /\ UNCHANGED << writerVars, pn_in, readVars >>

NextResolve == \E source_part_name \in ReferenceSources : PartRealpath(source_part_name)

SpecResolve == InitResolve /\ [][NextResolve]_vars

----------------------------------------------------------------------------
(* A package written, closed and read back *)

\* the caller has created no part or fragmented part of this normalized name
Unused(name) ==
    /\ \A i \in 1..Len(items) : << "/" >> \o items[i].name # normalize_part_name(name)
    /\ \A h \in 1..Len(handles) :
          normalize_part_name(handles[h].name) # normalize_part_name(name)

\* a caller that gives every part a name of its own: names that normalization
\* percent-encodes or lowers, and a payload by which each item is told apart
NextRT ==
    \/ \E name \in { NAME_B_C, NAME_A_TXT_UPPER },
           content_type \in ContentTypePool, data \in Payloads :
          Unused(name) /\ OpenPart(name, content_type, data) /\ Within(MaxWritten)
    \/ \E name \in { NAME_B_C, NAME_A_TXT_UPPER }, content_type \in ContentTypePool :
          Unused(name) /\ CreateFragmentedPart(name, content_type) /\ Within(MaxWritten)
    \/ \E h \in 1..Len(handles), is_last \in BOOLEAN, data \in Payloads :
          FragmentOpen(h, is_last, data) /\ Within(MaxWritten)
    \/ WriteContentTypesStream
    \/ Close

SpecRT == Init /\ [][NextRT]_vars

----------------------------------------------------------------------------
(* A fragmented part read back from an archive *)

RECURSIVE Sum(_)
Sum(lens) == IF lens = << >> THEN 0 ELSE Head(lens) + Sum(Tail(lens))

\* the ways to cut at most MaxBytes bytes into at most MaxFragments fragments,
\* as the fragments' lengths; a fragment may be empty
Splits == { lens \in SeqsUpTo(0..MaxBytes, MaxFragments) : Sum(lens) <= MaxBytes }

\* the bytes 1, 2, ... cut as lens says
Fragment(lens, k) ==
    [ i \in 1..lens[k] |-> Sum(SubSeq(lens, 1, k - 1)) + i ]

\* the archive a writer leaves that wrote the fragments through one handle for
\* /a.txt and sealed the last one or not, after it emitted the content types
RECURSIVE FragmentedArchive(_, _)
FragmentedArchive(lens, sealed) ==
    IF lens = << >>
    THEN create_item(<< >>, CONTENT_TYPES_STREAM_NAME, "application/xml",
                     write_xml(<< [ k |-> TXT, v |-> TEXT_PLAIN ] >>, << >>), ByStream)
    ELSE create_item(FragmentedArchive(SubSeq(lens, 1, Len(lens) - 1), FALSE),
                     fragment_item_name(NAME_A_TXT, Len(lens) - 1, sealed),
                     TEXT_PLAIN, Fragment(lens, Len(lens)), ByHandle(1))

InitFR ==
    /\ content_types_stream_name = CONTENT_TYPES_STREAM_NAME
    /\ default_types = << [ k |-> TXT, v |-> TEXT_PLAIN ] >>
    /\ overrides = << >>
    /\ content_types_written = TRUE
    /\ \E lens \in Splits, sealed \in BOOLEAN :
          /\ lens = << >> => ~sealed
          /\ items = FragmentedArchive(lens, sealed)
          /\ handles = IF lens = << >> THEN << >>
                       ELSE << [ new_handle(NAME_A_TXT, TEXT_PLAIN, 1)
                                   EXCEPT !.fragment_number = Len(lens),
                                          !.finished = sealed ] >>
    /\ last = Call("close", "ok")
    /\ IdleNames
    /\ IdleRead

\* ZipPackageReader(file).open_part(name)
ReaderOpenPart(name) ==
    /\ fr = << >>
    /\ \E reader \in { _init_data(items) } :
          IF reader.res # "ok"
          THEN /\ fr_last' = StreamCall("open_part", 0, reader.res, << >>)
               /\ UNCHANGED fr
          ELSE IF ~DictHas(reader.parts, normalize_part_name(name))
          THEN /\ fr_last' = StreamCall("open_part", 0, "NotFound", << >>)
               /\ UNCHANGED fr
          ELSE \E stream \in { FragmentedPartReader(items,
                                   DictGet(reader.parts, normalize_part_name(name))
                                       .physical_item_name) } :
                  /\ DictGet(reader.parts, normalize_part_name(name)).fragmented
                  /\ fr_last' = StreamCall("open_part", 0, stream.res, << >>)
                  /\ fr' = IF stream.res = "ok" THEN << stream.r >> ELSE << >>
    /\ UNCHANGED << writerVars, nameVars, coreVars, fr_out, indexVars >>

\* FragmentedPartReader(name, reader), made without looking the part up
NewFragmentedPartReader(name) ==
    /\ fr = << >>
    /\ \E stream \in { FragmentedPartReader(items, name) } :
          /\ fr_last' = StreamCall("__init__", 0, stream.res, << >>)
          /\ fr' = IF stream.res = "ok" THEN << stream.r >> ELSE << >>
    /\ UNCHANGED << writerVars, nameVars, coreVars, fr_out, indexVars >>

\* FragmentedPartReader.read(size)
Read(size) ==
    /\ fr # << >>
    /\ \E r \in { read(items, fr[1], size) } :
          /\ fr' = << r.r >>
          /\ fr_last' = StreamCall("read", size, r.res, r.result)
          /\ fr_out' = fr_out \o r.result
    /\ UNCHANGED << writerVars, nameVars, coreVars, indexVars >>

\* FragmentedPartReader.close
StreamClose ==
    /\ fr # << >>
    /\ fr' = << handle_close(fr[1]) >>
    /\ fr_last' = StreamCall("close", 0, "ok", << >>)
    /\ UNCHANGED << writerVars, nameVars, coreVars, fr_out, indexVars >>

ReadSizes == { -1 } \cup 1..MaxReadSize

NextFR ==
    \/ ReaderOpenPart(NAME_A_TXT_UPPER)
    \/ NewFragmentedPartReader(NAME_A_TXT)
    \/ \E size \in ReadSizes : Read(size)
    \/ StreamClose

SpecFR == InitFR /\ [][NextFR]_vars

----------------------------------------------------------------------------
(* A reader over an archive that any producer may have left *)

NAME_F_TXT == << "/", "f", ".", "t", "x", "t" >>
NAME_A_B_C == << "/", "a", ".", "b", " ", "c" >>
NAME_BARRELS == << "/", "_", "r", "e", "l", "s", "/", "b", "a", "r", "r", "e", "l", "s" >>
RELS == << "r", "e", "l", "s" >>

\* a Relationship element; TargetMode is NO_TARGET_MODE when the attribute is absent
RelationshipElement(id, type, target, target_mode) ==
    [ tag |-> "Relationship", Target |-> target, Id |-> id, Type |-> type,
      TargetMode |-> target_mode ]

\* the relationships of the package root: a relative target, an external one and
\* an absolute one, the first and the last of one type
ROOT_RELS ==
    << RelationshipElement("r1", "t1", Tail(NAME_A_TXT_UPPER), NO_TARGET_MODE),
       RelationshipElement("r2", "t2", << "h", ":", "x" >>, "External"),
       RelationshipElement("r3", "t1", NAME_F_TXT, "Internal") >>

\* the relationships of /A.txt: relative targets only
PART_RELS ==
    << RelationshipElement("r1", "t1", << ".", "/" >> \o Tail(NAME_F_TXT), "internal"),
       RelationshipElement("r2", "t2", << "h", ":", "x" >>, "EXTERNAL"),
       RelationshipElement("r3", "t1", Tail(NAME_A_B_C), "Internal") >>

\* the entries an archive is made of, as [name, data]: parts whose names
\* normalization lowers or percent-encodes, relationships parts, a part in a
\* _rels directory that is no relationships part, and a fragmented part
ItemPool ==
    << [ name |-> NAME_A_TXT_UPPER, data |-> << 1 >> ],
       [ name |-> NAME_A_B_C, data |-> << 2 >> ],
       [ name |-> _rels_part_for(<< "/" >>), data |-> ROOT_RELS ],
       [ name |-> _rels_part_for(NAME_A_TXT_UPPER), data |-> PART_RELS ],
       [ name |-> NAME_BARRELS, data |-> << 3 >> ],
       [ name |-> fragment_item_name(NAME_F_TXT, 0, TRUE), data |-> << 4 >> ] >>

\* the children a <Types> element is made of
TypesPool ==
    << [ tag |-> "Default", key |-> << "T", "X", "T" >>, ContentType |-> TEXT_PLAIN ],
       [ tag |-> "Default", key |-> RELS, ContentType |-> RELATIONSHIPS_CONTENT_TYPE ],
       [ tag |-> "Default", key |-> << "b", " ", "c" >>, ContentType |-> IMAGE_PNG ],
       [ tag |-> "Override", key |-> NAME_A_TXT_UPPER, ContentType |-> IMAGE_PNG ],
       [ tag |-> "Override", key |-> NAME_A_B_C, ContentType |-> "" ],
       [ tag |-> "Override", key |-> NAME_BARRELS, ContentType |-> TEXT_PLAIN ] >>

\* the entries of pool that chosen holds, in the pool's order
RECURSIVE Chosen(_, _)
Chosen(pool, chosen) ==
    IF pool = << >> THEN << >>
    ELSE Chosen(SubSeq(pool, 1, Len(pool) - 1), chosen)
            \o (IF Len(pool) \in chosen THEN << pool[Len(pool)] >> ELSE << >>)

\* the archive of the chosen entries, the content-types stream written last if
\* there is one
RECURSIVE Archive(_)
Archive(entries) ==
    IF entries = << >> THEN << >>
    ELSE create_item(Archive(SubSeq(entries, 1, Len(entries) - 1)),
                     entries[Len(entries)].name, "", entries[Len(entries)].data, ByPart)

InitReader ==
    /\ content_types_stream_name = READER_CONTENT_TYPES_STREAM_NAME
    /\ default_types = << >>
    /\ overrides = << >>
    /\ content_types_written = TRUE
    /\ \E chosen \in SUBSET (1..Len(ItemPool)), types \in SUBSET (1..Len(TypesPool)),
           with_stream \in BOOLEAN :
          /\ Cardinality(chosen) <= MaxItems
          /\ ~with_stream => types = { }
          /\ items = IF with_stream
                     THEN create_item(Archive(Chosen(ItemPool, chosen)),
                                      CONTENT_TYPES_STREAM_NAME, "application/xml",
                                      Chosen(TypesPool, types), ByStream)
                     ELSE Archive(Chosen(ItemPool, chosen))
    /\ handles = << >>
    /\ last = Call("close", "ok")
    /\ IdleNames
    /\ IdleRead

\* ZipPackageReader(file)
NewZipPackageReader ==
    /\ opened = "none"
    /\ \E r \in { _init_data(items) } :
          /\ opened' = r.res
          /\ _parts' = r.parts
    /\ reader_last' = ReaderCall("__init__", << >>, FALSE, opened', << >>)
    /\ UNCHANGED << writerVars, nameVars, coreVars, fr, fr_last, fr_out >>

\* list(reader.list_parts(include_rels_parts))
ListParts(include_rels_parts) ==
    /\ opened = "ok"
    /\ reader_last' = ReaderCall("list_parts", << >>, include_rels_parts, "ok",
                                 list_parts(_parts, include_rels_parts))
    /\ UNCHANGED << writerVars, nameVars, coreVars, fr, fr_last, fr_out, opened, _parts >>

\* list(reader.get_raw_relationships(part_name))
GetRawRelationships(part_name) ==
    /\ opened = "ok"
    /\ \E r \in { get_raw_relationships(items, _parts, part_name) } :
          reader_last' = ReaderCall("get_raw_relationships", part_name, FALSE, r.res, r.result)
    /\ UNCHANGED << writerVars, nameVars, coreVars, fr, fr_last, fr_out, opened, _parts >>

\* reader.get_related_parts_by_type(part_name)
GetRelatedPartsByType(part_name) ==
    /\ opened = "ok"
    /\ \E r \in { get_related_parts_by_type(items, _parts, part_name) } :
          reader_last' = ReaderCall("get_related_parts_by_type", part_name, FALSE,
                                    r.res, r.result)
    /\ UNCHANGED << writerVars, nameVars, coreVars, fr, fr_last, fr_out, opened, _parts >>

\* ContentTypesData.from_xml(stream).get_content_type(part_name), the stream
\* being the content-types stream of the archive
GetContentType(part_name) ==
    /\ opened = "ok"
    /\ \E stream \in { read_part(items, find_parts(list_items(items)),
                                  content_types_stream_name) } :
          \E content_types \in { from_xml(stream.result) } :
             reader_last' =
                 ReaderCall("get_content_type", part_name, FALSE, "ok",
                            << get_content_type(content_types.default_types,
                                                content_types.overrides, part_name) >>)
    /\ UNCHANGED << writerVars, nameVars, coreVars, fr, fr_last, fr_out, opened, _parts >>

\* reader.open_part(name)
OpenIndexedPart(name) ==
    /\ opened = "ok"
    /\ \E part \in { reader_open_part(items, _parts, name) } :
          reader_last' = ReaderCall("open_part", name, FALSE, part.res, << part >>)
    /\ UNCHANGED << writerVars, nameVars, coreVars, fr, fr_last, fr_out, opened, _parts >>

NAME_A_TXT_CAPITALS == << "/", "A", ".", "T", "X", "T" >>
NAME_A_B_C_ENCODED == << "/", "a", ".", "b", "%", "2", "0", "c" >>

\* the names a caller asks the reader about: spellings of the parts' names that
\* differ in case or in percent-encoding, and a name of no part
ReaderNamePool ==
    { NAME_A_TXT, NAME_A_TXT_UPPER, NAME_A_TXT_CAPITALS, NAME_A_B_C, NAME_A_B_C_ENCODED,
      NAME_F_TXT }

\* the source parts relationships are asked of: the root, two spellings of a
\* part and a part that has none
RelationshipSources == { << "/" >>, NAME_A_TXT, NAME_A_TXT_UPPER, NAME_F_TXT }

NextReader ==
    \/ NewZipPackageReader
    \/ \E include_rels_parts \in BOOLEAN : ListParts(include_rels_parts)
    \/ \E part_name \in RelationshipSources : GetRawRelationships(part_name)
    \/ \E part_name \in RelationshipSources : GetRelatedPartsByType(part_name)
    \/ \E part_name \in ReaderNamePool : GetContentType(part_name)
    \/ \E name \in ReaderNamePool : OpenIndexedPart(name)

SpecReader == InitReader /\ [][NextReader]_vars

----------------------------------------------------------------------------
(* A Core Properties object written and read back *)

\* the keywords of the objects: with a language and without
KeywordPool == { [ lang |-> "en-US", text |-> "color" ], [ lang |-> "None", text |-> "colour" ] }

\* the objects that are written: the attributes the repository's test sets,
\* each set or not
InitCore ==
    /\ content_types_stream_name = CONTENT_TYPES_STREAM_NAME
    /\ default_types = << >>
    /\ overrides = << >>
    /\ content_types_written = FALSE
    /\ items = << >>
    /\ handles = << >>
    /\ last = Call("__init__", "ok")
    /\ IdleNames
    /\ fr = << >> /\ fr_last = StreamCall("none", 0, "ok", << >>) /\ fr_out = << >>
    /\ opened = "none" /\ _parts = << >> /\ reader_last = NoReaderCall
    /\ \E contentStatus \in { << >>, << "Reviewed" >> },
          title \in { << >>, << "" >>, << "OPC Core Properties" >> },
          created \in { << >>, << "2005-06-12" >> },
          keywords \in { << >> } \cup { << k >> : k \in SeqsUpTo(KeywordPool, MaxKeywords) } :
          cp = [ OPCCoreProperties EXCEPT !["contentStatus"] = contentStatus,
                                          !["title"] = title,
                                          !["created"] = created,
                                          !["keywords"] = keywords ]
    /\ cp_last = NoCodecCall

\* cp.write_xml(f)
CoreWriteXml ==
    /\ cp_last.op = "none"
    /\ \E r \in { OPCCoreProperties_write_xml(cp, Len(ATTRIBUTES)) } :
          cp_last' = CodecCall("write_xml", r.res, r.file, << >>)
    /\ UNCHANGED << writerVars, nameVars, fr, fr_last, fr_out, indexVars, cp >>

\* OPCCoreProperties.from_xml(f) of the file written
CoreFromXml ==
    /\ cp_last.op = "write_xml"
    /\ cp_last.res = "ok"
    /\ cp_last' = CodecCall("from_xml", "ok", cp_last.file,
                            << OPCCoreProperties_from_xml(cp_last.file) >>)
    /\ UNCHANGED << writerVars, nameVars, fr, fr_last, fr_out, indexVars, cp >>

NextCore == CoreWriteXml \/ CoreFromXml

SpecCore == InitCore /\ [][NextCore]_vars

----------------------------------------------------------------------------
(* The Core Properties of a package that is read *)

NAME_O_XML == << "/", "o", ".", "x", "m", "l" >>
XML == << "x", "m", "l" >>

\* the relationships parts of the package root: without a relationship of the
\* Core Properties type, and with two of them, the targets relative or absolute
CoreRelsPool ==
    { ROOT_RELS,
      << RelationshipElement("r1", "t1", Tail(NAME_O_XML), NO_TARGET_MODE),
         RelationshipElement("r2", RELATIONSHIP_TYPE_CORE_PROPERTIES,
                             Tail(DEFAULT_CORE_PROPERTIES_NAME), NO_TARGET_MODE),
         RelationshipElement("r3", RELATIONSHIP_TYPE_CORE_PROPERTIES,
                             Tail(NAME_O_XML), "Internal") >>,
      << RelationshipElement("r1", RELATIONSHIP_TYPE_CORE_PROPERTIES,
                             DEFAULT_CORE_PROPERTIES_NAME, "Internal"),
         RelationshipElement("r2", RELATIONSHIP_TYPE_CORE_PROPERTIES,
                             Tail(NAME_O_XML), "Internal") >> }

\* the children of <coreProperties> in a Core Properties part
CoreXmlPool ==
    { << >>,
      << Element("dc:creator", "Michael Thies", << >>) >>,
      << Element("dc:creator", "Michael Thies", << >>),
         Element("dc:title", "", << >>),
         Element("cp:unknown", "x", << >>) >> }

\* the archive of a package: with or without the relationships of the root,
\* with the parts they lead to, the manifest declaring the content types of all
InitCoreReader ==
    /\ content_types_stream_name = READER_CONTENT_TYPES_STREAM_NAME
    /\ default_types = << >>
    /\ overrides = << >>
    /\ content_types_written = TRUE
    /\ \E rels \in { << >> } \cup { << r >> : r \in CoreRelsPool },
          core \in { << c >> : c \in CoreXmlPool },
          other \in { << c >> : c \in CoreXmlPool } :
          items = create_item(
                      Archive([ i \in 1..Len(rels) |->
                                  [ name |-> _rels_part_for(<< "/" >>), data |-> rels[i] ] ]
                              \o [ i \in 1..Len(core) |->
                                  [ name |-> DEFAULT_CORE_PROPERTIES_NAME, data |-> core[i] ] ]
                              \o [ i \in 1..Len(other) |->
                                  [ name |-> NAME_O_XML, data |-> other[i] ] ]),
                      CONTENT_TYPES_STREAM_NAME, "application/xml",
                      << [ tag |-> "Default", key |-> XML, ContentType |-> "application/xml" ],
                         [ tag |-> "Default", key |-> RELS,
                           ContentType |-> RELATIONSHIPS_CONTENT_TYPE ] >>,
                      ByStream)
    /\ handles = << >>
    /\ last = Call("close", "ok")
    /\ IdleNames
    /\ IdleRead

\* reader.get_core_properties()
GetCoreProperties ==
    /\ opened = "ok"
    /\ \E r \in { get_core_properties(items, _parts) } :
          reader_last' = ReaderCall("get_core_properties", << "/" >>, FALSE, r.res, r.result)
    /\ UNCHANGED << writerVars, nameVars, coreVars, fr, fr_last, fr_out, opened, _parts >>

NextCoreReader ==
    \/ NewZipPackageReader
    \/ GetCoreProperties
    \/ GetRelatedPartsByType(<< "/" >>)

SpecCoreReader == InitCoreReader /\ [][NextCoreReader]_vars

----------------------------------------------------------------------------
(* The index of an archive that holds fragments *)

NAME_B_TXT == << "/", "b", ".", "t", "x", "t" >>
NAME_F_TXT_CAPITALS == << "/", "F", ".", "T", "X", "T" >>

\* the item names of the archives: fragments of /f.txt under two spellings of
\* it, with and without the first one, fragments of /b.txt, and plain items
FragmentItemPool ==
    << fragment_item_name(NAME_F_TXT, 0, FALSE),
       fragment_item_name(NAME_F_TXT, 1, FALSE),
       fragment_item_name(NAME_F_TXT, 2, TRUE),
       fragment_item_name(NAME_F_TXT_CAPITALS, 0, TRUE),
       fragment_item_name(NAME_B_TXT, 0, TRUE),
       fragment_item_name(NAME_B_TXT, 1, TRUE),
       NAME_A_TXT_UPPER,
       NAME_A_B_C >>

\* an archive of at most MaxItems of these items and a content-types stream
\* that declares a content type for each of their parts
InitIndex ==
    /\ content_types_stream_name = READER_CONTENT_TYPES_STREAM_NAME
    /\ default_types = << >>
    /\ overrides = << >>
    /\ content_types_written = TRUE
    /\ \E chosen \in SUBSET (1..Len(FragmentItemPool)) :
          /\ Cardinality(chosen) <= MaxItems
          /\ \E names \in { Chosen(FragmentItemPool, chosen) } :
                items = create_item(
                            Archive([ i \in 1..Len(names) |->
                                        [ name |-> names[i], data |-> << i >> ] ]),
                            CONTENT_TYPES_STREAM_NAME, "application/xml",
                            << [ tag |-> "Default", key |-> TXT, ContentType |-> TEXT_PLAIN ],
                               [ tag |-> "Override", key |-> NAME_A_B_C,
                                 ContentType |-> IMAGE_PNG ] >>,
                            ByStream)
    /\ handles = << >>
    /\ last = Call("close", "ok")
    /\ IdleNames
    /\ IdleRead

NextIndex ==
    \/ NewZipPackageReader
    \/ \E include_rels_parts \in BOOLEAN : ListParts(include_rels_parts)
    \/ \E name \in { NAME_F_TXT, NAME_B_TXT } : OpenIndexedPart(name)

SpecIndex == InitIndex /\ [][NextIndex]_vars

----------------------------------------------------------------------------
(* Relationships written, and read back from the closed package *)

NAME_D_E == << "/", "d", "/", "e" >>
NAME_D_SLASH == << "/", "d", "/" >>

REL_2 == [ id |-> "r2", type |-> "t2", target |-> << "h", ":", "x" >>,
           target_mode |-> "EXTERNAL" ]

\* the sources a caller writes relationships for: the root, parts whose names
\* normalization changes, a part in a directory, and a name that is no part name
RelationshipsSourcePool == { << "/" >>, NAME_A_TXT_UPPER, NAME_B_C, NAME_D_E, NAME_D_SLASH }

\* the relationships the caller writes for a source: others for every part
RelationshipsFor(source) ==
    IF normalize_part_name(source) = << "/" >> THEN << REL_1, REL_2 >>
    ELSE IF normalize_part_name(source) = NAME_A_TXT THEN << REL_2 >>
    ELSE IF normalize_part_name(source) = NAME_D_E THEN << REL_1 >>
    ELSE << >>

\* a writer whose manifest has a Default for relationships parts or has none
InitRels ==
    /\ content_types_stream_name = CONTENT_TYPES_STREAM_NAME
    /\ default_types \in { << [ k |-> TXT, v |-> TEXT_PLAIN ] >>,
                            << [ k |-> TXT, v |-> TEXT_PLAIN ],
                               [ k |-> RELS, v |-> RELATIONSHIPS_CONTENT_TYPE ] >> }
    /\ overrides = << >>
    /\ content_types_written = FALSE
    /\ items = << >>
    /\ handles = << >>
    /\ last = Call("__init__", "ok")
    /\ IdleNames
    /\ IdleRead

\* the writer writes relationships and closes; a reader over the closed package
\* is asked for the relationships of the sources, under either spelling
NextRels ==
    \/ \E source \in RelationshipsSourcePool :
          WriteRelationships(RelationshipsFor(source), source) /\ Within(MaxCreated)
    \/ WriteContentTypesStream
    \/ Close
    \/ last = Call("close", "ok") /\ NewZipPackageReader
    \/ \E part_name \in RelationshipsSourcePool \cup { NAME_A_TXT } :
          GetRawRelationships(part_name)

SpecRels == InitRels /\ [][NextRels]_vars

----------------------------------------------------------------------------
(* A manifest and relationships encoded and decoded *)

\* the dicts of at most MaxEntries entries with these keys and values
Dicts(keys, values) ==
    { d \in SeqsUpTo([ k : keys, v : values ], MaxEntries) :
        \A i, j \in 1..Len(d) : i # j => d[i].k # d[j].k }

\* the Extensions and PartNames of the manifests: in the form the decoder
\* gives them and in others
ExtensionPool == { TXT, << "T", "X", "T" >>, << "b", " ", "c" >> }
OverrideNamePool == { NAME_A_TXT, NAME_A_TXT_UPPER, NAME_B_C }

\* what is encoded: a ContentTypesData, or a sequence of OPCRelationships
InitCodec ==
    /\ content_types_stream_name = CONTENT_TYPES_STREAM_NAME
    /\ default_types = << >>
    /\ overrides = << >>
    /\ content_types_written = FALSE
    /\ items = << >>
    /\ handles = << >>
    /\ last = Call("__init__", "ok")
    /\ IdleNames
    /\ fr = << >> /\ fr_last = StreamCall("none", 0, "ok", << >>) /\ fr_out = << >>
    /\ opened = "none" /\ _parts = << >> /\ reader_last = NoReaderCall
    /\ \/ \E defaults \in Dicts(ExtensionPool, ContentTypePool),
              overr \in Dicts(OverrideNamePool, ContentTypePool) :
             cp = [ content_types |-> [ default_types |-> defaults, overrides |-> overr ],
                    relationships |-> << >> ]
       \/ \E relationships \in SeqsUpTo({ REL_1, REL_2 }, MaxEntries) :
             cp = [ content_types |-> [ default_types |-> << >>, overrides |-> << >> ],
                    relationships |-> relationships ]
    /\ cp_last = NoCodecCall

\* cp.content_types.write_xml(f)
ContentTypesWriteXml ==
    /\ cp_last.op = "none"
    /\ cp.relationships = << >>
    /\ cp_last' = CodecCall("write_xml", "ok",
                            write_xml(cp.content_types.default_types,
                                      cp.content_types.overrides), << >>)
    /\ UNCHANGED << writerVars, nameVars, fr, fr_last, fr_out, indexVars, cp >>

\* ContentTypesData.from_xml(f) of the file written
ContentTypesFromXml ==
    /\ cp_last.op = "write_xml"
    /\ cp_last' = CodecCall("from_xml", "ok", cp_last.file, << from_xml(cp_last.file) >>)
    /\ UNCHANGED << writerVars, nameVars, fr, fr_last, fr_out, indexVars, cp >>

\* the elements without the TargetMode attribute where it says Internal
WithoutInternal(elems) ==
    [ i \in 1..Len(elems) |->
        IF elems[i].TargetMode = "Internal"
        THEN [ elems[i] EXCEPT !.TargetMode = NO_TARGET_MODE ] ELSE elems[i] ]

\* OPCPackageWriter._write_relationships(f, cp.relationships); the file as it is
\* written, or as another writer leaves it that omits TargetMode="Internal"
WriteRelationshipsXml(omitting) ==
    /\ cp_last.op = "none"
    /\ cp.relationships # << >>
    /\ cp_last' = CodecCall("_write_relationships", "ok",
                            IF omitting
                            THEN WithoutInternal(_write_relationships(cp.relationships))
                            ELSE _write_relationships(cp.relationships), << >>)
    /\ UNCHANGED << writerVars, nameVars, fr, fr_last, fr_out, indexVars, cp >>

\* list(OPCPackageReader._read_relationships(f)) of the file written
ReadRelationshipsXml ==
    /\ cp_last.op = "_write_relationships"
    /\ \E r \in { _read_relationships(cp_last.file) } :
          cp_last' = CodecCall("_read_relationships", r.res, cp_last.file, << r.result >>)
    /\ UNCHANGED << writerVars, nameVars, fr, fr_last, fr_out, indexVars, cp >>

NextCodec ==
    \/ ContentTypesWriteXml
    \/ ContentTypesFromXml
    \/ \E omitting \in BOOLEAN : WriteRelationshipsXml(omitting)
    \/ ReadRelationshipsXml

SpecCodec == InitCodec /\ [][NextCodec]_vars

----------------------------------------------------------------------------
(* A writer asked for parts under the name of the content-types stream *)

\* the name of the content-types stream in three letter cases
StreamNameSpellings ==
    { CONTENT_TYPES_STREAM_NAME,
      lower(CONTENT_TYPES_STREAM_NAME),
      << "/", "[", "C", "O", "N", "T", "E", "N", "T", "_", "T", "Y", "P", "E", "S", "]",
         ".", "X", "M", "L" >> }

NextStreamName ==
    \/ \E name \in StreamNameSpellings \cup { NAME_A_TXT_UPPER },
           content_type \in ContentTypePool :
          OpenPart(name, content_type, << >>) /\ Within(MaxCreated)
    \/ \E name \in StreamNameSpellings \cup { NAME_A_TXT_UPPER },
           content_type \in ContentTypePool :
          CreateFragmentedPart(name, content_type) /\ Within(MaxCreated)
    \/ \E h \in 1..Len(handles), is_last \in BOOLEAN :
          FragmentOpen(h, is_last, << >>) /\ Within(MaxCreated)
    \/ \E source \in StreamNameSpellings \cup { << "/" >> } :
          WriteRelationships(<< REL_1 >>, source) /\ Within(MaxCreated)
    \/ WriteContentTypesStream
    \/ Close

SpecStreamName == Init /\ [][NextStreamName]_vars

----------------------------------------------------------------------------
(* Claims about the writer *)

\* the archive entries that carry the name of the content-types stream
StreamItems ==
    { i \in 1..Len(items) : << "/" >> \o items[i].name = content_types_stream_name }

\* the manifest as a reader decodes it from the emitted content-types stream
EmittedManifest == from_xml(items[CHOOSE i \in StreamItems : TRUE].data)

\* what a manifest (its Defaults and Overrides) gives for a normalized part name:
\* the Override of the name, else the Default of its extension, else "None"
Resolves(defaults, overr, name) ==
    IF \E i \in 1..Len(overr) : overr[i].k = name
    THEN overr[CHOOSE i \in 1..Len(overr) : overr[i].k = name].v
    ELSE LET segment == SubSeq(name, LastIndexOf(name, "/") + 1, Len(name))
             ext == SubSeq(segment, LastIndexOf(segment, ".") + 1, Len(segment))
         IN  IF \E i \in 1..Len(defaults) : defaults[i].k = ext
             THEN defaults[CHOOSE i \in 1..Len(defaults) : defaults[i].k = ext].v
             ELSE "None"

NoOpWhenWritten ==
    (content_types_written /\ last'.op \in { "write_content_types_stream", "close" })
        => /\ last'.res = "ok"
           /\ items' = items
           /\ overrides' = overrides
           /\ content_types_written'

\* C1: under any sequence of writer calls the archive holds at most one item with
\* the name of the content-types stream, and a write_content_types_stream or a
\* close made when the stream is already written changes nothing
C1_StreamWrittenAtMostOnce ==
    /\ [](Cardinality(StreamItems) <= 1)
    /\ [][NoOpWhenWritten]_vars

\* C1 witness: a close has found the stream written before parts that follow it
C1_Witness ==
    /\ last = Call("close", "ok")
    /\ \E i \in StreamItems : i < Len(items)

\* the items that open_part created (write_relationships goes through open_part)
PartItems == { i \in 1..Len(items) : items[i].by = ByPart }

ResolvedByWriter(i) ==
    Resolves(default_types, overrides, << "/" >> \o items[i].name)
        = items[i].content_type

ResolvedWhenEmitted(i) ==
    content_types_written =>
        Resolves(EmittedManifest.default_types, EmittedManifest.overrides,
                 << "/" >> \o items[i].name) = items[i].content_type

PartResolved(i) == ResolvedByWriter(i) /\ ResolvedWhenEmitted(i)

OtherTypeHandle(h, i) ==
    /\ normalize_part_name(handles[h].name) = << "/" >> \o items[i].name
    /\ handles[h].content_type # items[i].content_type

\* a part or a fragmented part of the same normalized name as item i was
\* created after it with another content type
RecreatedWithOtherType(i) ==
    \/ \E j \in PartItems :
          /\ j > i
          /\ items[j].name = items[i].name
          /\ items[j].content_type # items[i].content_type
    \/ \E h \in 1..Len(handles) : handles[h].at >= i /\ OtherTypeHandle(h, i)

ValidNames == { n \in PartNamePool \cup FragmentedNamePool :
                  check_part_name(normalize_part_name(n)) }

OpenPartAfterFlush ==
    content_types_written =>
        \A name \in ValidNames, content_type \in ContentTypePool :
            LET r == open_part(overrides, items, name, content_type, << >>)
                fits == Resolves(default_types, overrides, normalize_part_name(name))
                           = content_type
            IN  /\ fits => /\ r.res = "ok"
                           /\ Len(r.items) = Len(items) + 1
                           /\ r.overrides = overrides
                /\ ~fits => /\ r.res = "InconsistentManifest"
                            /\ r.items = items
                            /\ r.overrides = overrides

OpenPartFailureStep ==
    (last'.op = "open_part" /\ last'.res = "InconsistentManifest")
        => content_types_written /\ items' = items /\ overrides' = overrides

\* C3: once the stream is written, open_part(name, ct) creates the item exactly
\* when the manifest resolves the name to ct, and otherwise fails with
\* InconsistentManifest, creating no item and adding no Override
C3_OpenPartAfterFlush ==
    /\ []OpenPartAfterFlush
    /\ [][OpenPartFailureStep]_vars

\* C3 witness: open_part has failed with InconsistentManifest, and would succeed
\* for another content type
C3_Witness ==
    /\ last = Call("open_part", "InconsistentManifest")
    /\ \E name \in ValidNames, content_type \in ContentTypePool :
          open_part(overrides, items, name, content_type, << >>).res = "ok"

IsNormalized(name) == normalize_part_name(name) = name

\* C4 as claimed: when create_fragmented_part(name, ct) has succeeded, the manifest
\* resolves normalize(name) to ct and every Override is keyed by a normalized name
C4_FragmentedPartDiscipline ==
    last = Call("create_fragmented_part", "ok") =>
        /\ Resolves(default_types, overrides,
                    normalize_part_name(handles[Len(handles)].name))
              = handles[Len(handles)].content_type
        /\ \A k \in 1..Len(overrides) : IsNormalized(overrides[k].k)

\* C5 as claimed: when close returns, a backend that declares a content-types
\* stream holds the stream, and on a backend that declares none close has
\* emitted nothing and has raised no error
C5_CloseEmitsUnlessNotApplicable ==
    last.op = "close" =>
        IF content_types_stream_name # NoStreamName
        THEN last.res = "ok" /\ content_types_written /\ Cardinality(StreamItems) = 1
        ELSE last.res = "ok" /\ \A i \in 1..Len(items) : items[i].by # ByStream

\* the items handle h created, in creation order
ItemsOfHandle(h) == SelectSeq(items, LAMBDA it : it.by = ByHandle(h))

\* the archive entry of fragment k of part P: P/[k].piece or P/[k].last.piece,
\* without the leading "/"
PieceEntry(P, k, sealed) ==
    Tail(P) \o << "/", "[" >> \o IntToStr(k) \o << "]", "." >>
        \o (IF sealed THEN << "l", "a", "s", "t", "." >> ELSE << >>)
        \o << "p", "i", "e", "c", "e" >>

FragmentsInOrder ==
    \A h \in 1..Len(handles) :
        LET made == ItemsOfHandle(h)
        IN  /\ Len(made) = handles[h].fragment_number
            /\ \A k \in 1..Len(made) :
                  made[k].name = PieceEntry(handles[h].name, k - 1,
                                            k = Len(made) /\ handles[h].finished)
            /\ handles[h].finished =>
                  \A is_last \in BOOLEAN :
                      fragment_open(handles, items, h, is_last, << >>)
                          = [ res |-> "AlreadyFinished", handles |-> handles,
                              items |-> items ]

FinishedStaysFinished ==
    /\ \A h \in 1..Len(handles) :
          handles[h].finished =>
              /\ handles'[h] = handles[h]
              /\ SelectSeq(items', LAMBDA it : it.by = ByHandle(h)) = ItemsOfHandle(h)
    /\ last'.res = "AlreadyFinished" => items' = items /\ handles' = handles

\* C6: the items a fragment handle creates are P/[0], P/[1], ... in call order,
\* all ".piece" but a final ".last.piece" that exists exactly when the handle is
\* finished; a call on a finished handle fails with AlreadyFinished and creates
\* no item
C6_FragmentsConsecutive ==
    /\ []FragmentsInOrder
    /\ [][FinishedStaysFinished]_vars

\* C6 witness: a handle has made P/[0].piece and P/[1].last.piece, and a further
\* call on it has failed
C6_Witness ==
    /\ last = Call("open", "AlreadyFinished")
    /\ \E h \in 1..Len(handles) : handles[h].fragment_number >= 2

----------------------------------------------------------------------------
(* Claims about the fragmented read stream *)

\* the fragments of /a.txt in the archive, in index order
FragmentItems == SelectSeq(items, LAMBDA it : it.by = ByHandle(1))

RECURSIVE Concat(_)
Concat(pieces) == IF pieces = << >> THEN << >> ELSE Head(pieces).data \o Concat(Tail(pieces))

\* B: the bytes of the part, the fragments end to end
PartBytes == Concat(FragmentItems)

\* the part's final fragment is a .last.piece
Sealed ==
    /\ FragmentItems # << >>
    /\ EndsWith(FragmentItems[Len(FragmentItems)].name,
                << ".", "l", "a", "s", "t", ".", "p", "i", "e", "c", "e" >>)

IsPrefix(s, t) == Len(s) <= Len(t) /\ SubSeq(t, 1, Len(s)) = s

\* the caller has not closed the stream
StreamOpen == fr # << >> /\ ~fr[1].closed

\* C7: over a part stored as fragments B0..Bn with a final .last.piece, every
\* read of the stream that open_part returns succeeds, what the reads have
\* returned is a prefix of B, it is all of B after an unbounded read, and a
\* read(n) with n > 0 gives an empty result only when all of B was delivered
C7_FragmentedReadReassembles ==
    (Sealed /\ fr_last.op = "read" /\ StreamOpen) =>
        /\ fr_last.res = "ok"
        /\ IsPrefix(fr_out, PartBytes)
        /\ fr_last.size = -1 => fr_out = PartBytes
        /\ fr_last.result = << >> => fr_out = PartBytes

\* C7 witness: three fragments, one of them empty, have been read to the end
\* with read(n), n > 0, in more than one call
C7_Witness ==
    /\ Sealed /\ StreamOpen
    /\ Len(FragmentItems) = MaxFragments
    /\ \E k \in 1..Len(FragmentItems) : FragmentItems[k].data = << >>
    /\ Len(PartBytes) >= 2
    /\ fr_last.op = "read" /\ fr_last.size > 0 /\ fr_last.result = << >>
    /\ fr_out = PartBytes

\* no read of a part without a .last.piece reports the end of the stream or
\* returns what is left of the part to the unbounded read
NeverTruncated ==
    (~Sealed /\ fr_last.op = "read" /\ fr_last.res = "ok") =>
        fr_last.result # << >> /\ fr_last.size # -1

\* on a part without a .last.piece the stream cannot be made when it has no
\* fragment at all, and a read that needs the missing fragment fails with
\* MissingFragment
MissingFragmentStep ==
    /\ (~Sealed /\ FragmentItems = << >> /\ fr_last'.op = "__init__")
          => fr_last'.res = "MissingFragment" /\ fr' = << >>
    /\ (~Sealed /\ StreamOpen /\ fr_last'.op = "read"
           /\ (fr_last'.size = -1 \/ fr_out = PartBytes))
          => fr_last'.res = "MissingFragment" /\ fr_out' = fr_out

\* C8: when fragments [0]..[k-1] are there, none a .last.piece, and fragment k is
\* missing, making the stream (k = 0) or the read that exhausts fragment k-1
\* fails with MissingFragment; no read reports the end of the stream or returns
\* the truncated bytes as the whole part
C8_MissingFragmentIsAnError ==
    /\ []NeverTruncated
    /\ [][MissingFragmentStep]_vars

\* C8 witness: the bytes of two fragments have been read, and the read that
\* needed the missing third has failed with MissingFragment
C8_Witness ==
    /\ ~Sealed
    /\ Len(FragmentItems) >= 2
    /\ fr_out = PartBytes /\ Len(PartBytes) >= 2
    /\ fr_last.op = "read" /\ fr_last.size > 0 /\ fr_last.res = "MissingFragment"

----------------------------------------------------------------------------
(* Claims about writing and reading back *)

\* the name and content type of every part the writer was asked to create
WrittenParts ==
    { << << "/" >> \o items[i].name, items[i].content_type >> : i \in PartItems }
        \cup { << normalize_part_name(handles[h].name), handles[h].content_type >> :
                  h \in 1..Len(handles) }

\* the package is closed, every fragmented part is sealed, and no two parts
\* have the same normalized name
WellFormedPackage ==
    /\ last = Call("close", "ok")
    /\ \A h \in 1..Len(handles) : handles[h].finished
    /\ Cardinality({ part[1] : part \in WrittenParts })
          = Cardinality(PartItems) + Len(handles)

\* C9: a reader over a closed package of parts with distinct normalized names,
\* every fragmented one sealed, lists exactly the written parts with their
\* content types, and reading each part gives the bytes written to it, the
\* fragments in index order
C9_WriteThenReadIsIdentity ==
    WellFormedPackage =>
        LET reader == _init_data(items)
            listed == list_parts(reader.parts, TRUE)
        IN  /\ reader.res = "ok"
            /\ Len(listed) = Cardinality(WrittenParts)
            /\ { listed[i] : i \in 1..Len(listed) } = WrittenParts
            /\ \A i \in PartItems :
                  read_part(items, reader.parts, << "/" >> \o items[i].name)
                      = [ res |-> "ok", result |-> items[i].data ]
            /\ \A h \in 1..Len(handles) :
                  read_part(items, reader.parts, handles[h].name)
                      = [ res |-> "ok", result |-> Concat(ItemsOfHandle(h)) ]

\* C9 witness: a package is closed in which another part was written between
\* the two fragments of a fragmented part, all three with bytes
C9_Witness ==
    /\ WellFormedPackage
    /\ \E h \in 1..Len(handles), i \in PartItems, j, k \in 1..Len(items) :
          /\ j < i /\ i < k
          /\ items[j].by = ByHandle(h) /\ items[k].by = ByHandle(h)
          /\ items[i].data # << >> /\ items[j].data # << >> /\ items[k].data # << >>

----------------------------------------------------------------------------
(* Claims about part names *)

\* the characters of a segment: unreserved, sub-delimiters, ":", "@" and "%"
SegmentChars ==
    Letters \cup Range(DIGITS)
        \cup { "-", ".", "_", "~", "%", ":", "@", "!", "$", "&", "'", "(", ")", "*",
               "+", ",", ";", "=" }

\* the part-name grammar: "/" segment ("/" segment)*, no segment empty or made
\* of dots only
InGrammar(name) ==
    /\ Len(name) >= 2
    /\ name[1] = "/"
    /\ name[Len(name)] # "/"
    /\ \A i \in 1..Len(name) : name[i] = "/" \/ name[i] \in SegmentChars
    /\ \A i \in 1..(Len(name) - 1) : ~(name[i] = "/" /\ name[i + 1] = "/")
    /\ \A i \in 1..Len(name) :
          name[i] = "/" =>
              \E j \in (i + 1)..Len(name) :
                  /\ name[j] # "."
                  /\ \A k \in (i + 1)..j : name[k] # "/"

\* %2F or %5C stands somewhere in name, in either case
HasEncodedSeparator(name) ==
    \E i \in 1..(Len(name) - 2) :
        lower(SubSeq(name, i, i + 2)) \in { << "%", "2", "f" >>, << "%", "5", "c" >> }

\* C10 as claimed: check fails with MalformedName for every name outside the
\* grammar and for every name with %2F or %5C in it, wherever it stands
C10_CheckRejectsMalformed ==
    (pn_call.op = "check_part_name"
       /\ (~InGrammar(pn_in) \/ HasEncodedSeparator(pn_in)))
        => pn_out = "MalformedName"

----------------------------------------------------------------------------
(* Claims about references *)

\* C11: an absolute reference that is a part name resolves to itself, whatever
\* the source part is
C11_AbsoluteReferenceResetsToRoot ==
    (pn_call.op = "part_realpath" /\ InGrammar(pn_in))
        => (pn_out = "ok" /\ pn_call.value = pn_in)

\* walking the segments of a reference from a directory depth levels below the
\* root, some ".." is met at the root itself
RECURSIVE PopsPast(_, _)
PopsPast(segments, depth) ==
    IF segments = << >> THEN FALSE
    ELSE IF Head(segments) = << ".", "." >>
    THEN depth = 0 \/ PopsPast(Tail(segments), depth - 1)
    ELSE IF Head(segments) = << "." >>
    THEN PopsPast(Tail(segments), depth)
    ELSE PopsPast(Tail(segments), depth + 1)

\* an absolute reference is walked from the root, a relative one from the
\* directory of the source
PopsPastRoot(reference, source) ==
    IF StartsWith(reference, << "/" >>)
    THEN PopsPast(Tail(Split(reference, "/")), 0)
    ELSE PopsPast(Split(reference, "/"), Len(Split(source, "/")) - 2)

NoDotSegments(name) ==
    \A i \in 1..Len(Split(name, "/")) :
        Split(name, "/")[i] \notin { << "." >>, << ".", "." >> }

\* C12: part_realpath fails with MalformedReference exactly when a ".." would pop
\* past the root, and otherwise returns a name that starts with "/" and has no
\* "." or ".." segment
C12_ResolveFailsOrReturnsRootedName ==
    pn_call.op = "part_realpath"
        => IF PopsPastRoot(pn_in, pn_call.source)
           THEN pn_out = "MalformedReference"
           ELSE /\ pn_out = "ok"
                /\ StartsWith(pn_call.value, << "/" >>)
                /\ NoDotSegments(pn_call.value)

----------------------------------------------------------------------------
(* Claims about normalize *)

Normalized == pn_call.op = "normalize_part_name"

\* C13: normalize applied to its own result returns that result, and the
\* normalized form of a name check accepts is accepted by check
C13_NormalizeIdempotentAndAccepted ==
    Normalized
        => /\ normalize_part_name(pn_call.value) = pn_call.value
           /\ check_part_name(pn_in) => check_part_name(pn_call.value)

\* an accepted name that normalize made longer has been normalized
C13_Witness ==
    Normalized /\ check_part_name(pn_in) /\ Len(pn_call.value) > Len(pn_in)

ENCODED_SLASH == { << "%", "2", "f" >>, << "%", "2", "F" >> }

ENCODED_BACKSLASH == { << "%", "5", "c" >>, << "%", "5", "C" >> }

\* the positions of s where one of the spellings starts
Occurrences(s, spellings) ==
    { i \in 1..(Len(s) - 2) : SubSeq(s, i, i + 2) \in spellings }

\* the positions of s that hold c
Positions(s, c) == { i \in 1..Len(s) : s[i] = c }

\* C14 as claimed: when the normalized form holds %2f or %5c, in any case, the
\* input held such an escape
C14_NoEncodedSeparatorIntroduced ==
    Normalized
        => (Occurrences(pn_call.value, ENCODED_SLASH \cup ENCODED_BACKSLASH) # { }
              => Occurrences(pn_in, ENCODED_SLASH \cup ENCODED_BACKSLASH) # { })

\* C14: the normalized form holds as many %2f as the input, and as many %5c as
\* the input holds %5c and literal backslashes together; a literal "/" adds none
C14_OnlyBackslashIntroducesEscape ==
    Normalized
        => /\ Cardinality(Occurrences(pn_call.value, ENCODED_SLASH))
                = Cardinality(Occurrences(pn_in, ENCODED_SLASH))
           /\ Cardinality(Occurrences(pn_call.value, ENCODED_BACKSLASH))
                = Cardinality(Occurrences(pn_in, ENCODED_BACKSLASH))
                    + Cardinality(Positions(pn_in, "\\"))

\* a string with a literal "/", a literal backslash and an escape of its own
\* has been normalized
C14_Witness ==
    /\ Normalized
    /\ Positions(pn_in, "/") # { }
    /\ Positions(pn_in, "\\") # { }
    /\ Occurrences(pn_call.value, ENCODED_BACKSLASH) # { }

----------------------------------------------------------------------------
(* Claims about the reader *)

\* a name of the form .../_rels/X.rels
IsRelationshipsPartName(name) ==
    /\ EndsWith(LastPiece(name, "/"), << "." >> \o RELS)
    /\ EndsWith(ButLastPieces(name, "/"), << "/", "_" >> \o RELS \o << "/" >>)

Listed == reader_last.result

\* C15: list_parts yields no relationships part unless they are asked for, never
\* the content-types stream, and every other part of the index exactly once
C15_ListPartsHidesOnlyRelationships ==
    reader_last.op = "list_parts"
        => /\ \A i \in 1..Len(Listed) :
                /\ IsRelationshipsPartName(Listed[i][1]) => reader_last.include_rels_parts
                /\ Listed[i][1] # content_types_stream_name
           /\ \A p \in 1..Len(_parts) :
                (/\ _parts[p].k # content_types_stream_name
                 /\ IsRelationshipsPartName(_parts[p].k) => reader_last.include_rels_parts)
                    => Cardinality({ i \in 1..Len(Listed) : Listed[i][1] = _parts[p].k }) = 1

\* no entry of the archive is the relationships part of source, nor a fragment
\* of it
NoRelationshipsPart(source) ==
    \A i \in 1..Len(items) :
        ~StartsWith(normalize_part_name(<< "/" >> \o items[i].name),
                    normalize_part_name(_rels_part_for(source)))

\* the archive an empty writer leaves when it is closed
EmptyPackage ==
    items = create_item(<< >>, CONTENT_TYPES_STREAM_NAME, "application/xml",
                        write_xml(<< >>, << >>), ByStream)

AboutRelationships ==
    reader_last.op \in { "get_raw_relationships", "get_related_parts_by_type" }

\* C16: asked for the relationships of a source that has no relationships part,
\* the reader returns no relationship and no related part, and no error; a
\* reader over the package of an empty writer lists no part
C16_MissingRelationshipsAreEmpty ==
    /\ (AboutRelationships /\ NoRelationshipsPart(reader_last.name))
          => (reader_last.res = "ok" /\ reader_last.result = << >>)
    /\ EmptyPackage
          => /\ opened \in { "none", "ok" }
             /\ (AboutRelationships \/ reader_last.op = "list_parts")
                   => (reader_last.res = "ok" /\ reader_last.result = << >>)

\* the relationships of the root are asked of a reader over a package that has
\* parts but no relationships part of the root
C16_Witness ==
    /\ AboutRelationships
    /\ reader_last.name = << "/" >>
    /\ NoRelationshipsPart(<< "/" >>)
    /\ _parts # << >>

\* the elements of the relationships part of source, none when it has no such part
RelationshipsOf(source) ==
    LET found == { i \in 1..Len(items) :
                     normalize_part_name(<< "/" >> \o items[i].name)
                         = normalize_part_name(_rels_part_for(source)) }
    IN  IF found = { } THEN << >> ELSE items[CHOOSE i \in found : TRUE].data

IsInternal(elem) ==
    elem.TargetMode \in { NO_TARGET_MODE, "Internal", "internal", "INTERNAL" }

\* a reference without ".." resolved against source: an absolute one is the
\* part name itself, a relative one starts in the directory of source
ResolvedAgainst(reference, source) ==
    IF StartsWith(reference, << "/" >>) THEN reference
    ELSE IF StartsWith(reference, << ".", "/" >>)
    THEN ButLastPieces(source, "/") \o SubSeq(reference, 3, Len(reference))
    ELSE ButLastPieces(source, "/") \o reference

\* the targets of the INTERNAL relationships of one type, resolved and
\* normalized, in the order of the relationships part
TargetsOfType(source, type) ==
    LET of_type == SelectSeq(RelationshipsOf(source),
                             LAMBDA elem : IsInternal(elem) /\ elem.Type = type)
    IN  [ i \in 1..Len(of_type) |->
            normalize_part_name(ResolvedAgainst(of_type[i].Target, source)) ]

InternalTypes(source) ==
    { RelationshipsOf(source)[i].Type : i \in
        { j \in 1..Len(RelationshipsOf(source)) : IsInternal(RelationshipsOf(source)[j]) } }

\* C17: get_related_parts_by_type returns one entry for each type that has an
\* INTERNAL relationship, holding the resolved and normalized targets of the
\* INTERNAL relationships of that type in their order
C17_RelatedPartsByType ==
    reader_last.op = "get_related_parts_by_type"
        => /\ reader_last.res = "ok"
           /\ DictKeys(reader_last.result) = InternalTypes(reader_last.name)
           /\ Len(reader_last.result) = Cardinality(InternalTypes(reader_last.name))
           /\ \A i \in 1..Len(reader_last.result) :
                reader_last.result[i].v
                    = TargetsOfType(reader_last.name, reader_last.result[i].k)

\* the archive entries that hold the content-types stream
ManifestItems ==
    { i \in 1..Len(items) :
        normalize_part_name(<< "/" >> \o items[i].name) = content_types_stream_name }

\* the manifest decoded from the content-types stream
DecodedManifest == from_xml(items[CHOOSE i \in ManifestItems : TRUE].data)

\* what the decoded manifest resolves for a normalized part name
ManifestType(name) ==
    Resolves(DecodedManifest.default_types, DecodedManifest.overrides, name)

\* the parts of the index, the content-types stream aside
IndexedParts == { p \in 1..Len(_parts) : _parts[p].k # content_types_stream_name }

\* every part of the index carries the content type the manifest resolves
TypesAttached ==
    /\ opened = "ok"
    /\ \A p \in 1..Len(_parts) :
          /\ _parts[p].k # content_types_stream_name
          /\ _parts[p].v.content_type = ManifestType(_parts[p].k)
          /\ _parts[p].v.content_type # "None"

\* C18 as claimed: construction fails with UnknownContentType when some part has
\* no content type in the manifest, and succeeds otherwise, with every part
\* carrying the content type the manifest resolves, none of them empty
C18_ConstructionTypesEveryPart ==
    opened # "none"
        => IF \E p \in IndexedParts :
                  ManifestItems = { } \/ ManifestType(_parts[p].k) = "None"
           THEN opened = "UnknownContentType"
           ELSE /\ opened = "ok"
                /\ \A p \in 1..Len(_parts) :
                      /\ _parts[p].k # content_types_stream_name
                      /\ _parts[p].v.content_type = ManifestType(_parts[p].k)
                      /\ _parts[p].v.content_type \notin { "", "None" }

\* C18: construction fails with NotFound when the archive holds no content-types
\* stream, else with UnknownContentType when the manifest resolves no content
\* type for some part, and else succeeds with every part carrying the content
\* type the manifest resolves, as the manifest spells it
C18_ConstructionFailsOrTypesEveryPart ==
    opened # "none"
        => IF ManifestItems = { } THEN opened = "NotFound"
           ELSE IF \E p \in IndexedParts : ManifestType(_parts[p].k) = "None"
           THEN opened = "UnknownContentType"
           ELSE TypesAttached

\* a reader is constructed over a fragmented part, a part with an Override and a
\* Default, and a relationships part
C18_Witness ==
    /\ opened = "ok"
    /\ \E p, q, r \in 1..Len(_parts) :
          /\ _parts[p].v.fragmented
          /\ DictHas(DecodedManifest.overrides, _parts[q].k)
          /\ DictHas(DecodedManifest.default_types, LastPiece(_parts[q].k, "."))
          /\ ~_parts[r].v.fragmented /\ r # q

\* the extension of a part name: the text after the last "." of its last
\* segment, lowercased
LoweredExtension(name) == lower(LastPiece(LastPiece(name, "/"), "."))

\* the names the reader is asked about that are spellings of name
Spellings(name) ==
    { other \in ReaderNamePool :
        normalize_part_name(other) = normalize_part_name(name) }

\* C19: the manifest resolves a part name to the Override of its normalized
\* form, else to the Default of the lowercased extension of its last segment,
\* else to nothing, and to the same for every spelling of the name
C19_OverrideThenDefaultOfExtension ==
    reader_last.op = "get_content_type"
        => /\ reader_last.result[1] =
                IF DictHas(DecodedManifest.overrides, normalize_part_name(reader_last.name))
                THEN DictGet(DecodedManifest.overrides,
                             normalize_part_name(reader_last.name))
                ELSE IF DictHas(DecodedManifest.default_types,
                                LoweredExtension(reader_last.name))
                THEN DictGet(DecodedManifest.default_types,
                             LoweredExtension(reader_last.name))
                ELSE "None"
           /\ \A other \in Spellings(reader_last.name) :
                get_content_type(DecodedManifest.default_types, DecodedManifest.overrides,
                                 other) = reader_last.result[1]

\* what was opened is the part that descriptor stands for: the archive entry
\* of its physical name, or a read stream over its fragments
OpenedIs(part, descriptor) ==
    /\ part.fragmented = descriptor.fragmented
    /\ IF descriptor.fragmented
       THEN /\ part.stream # << >>
            /\ part.stream[1].name = descriptor.physical_item_name
       ELSE /\ part.item \in 1..Len(items)
            /\ << "/" >> \o items[part.item].name = descriptor.physical_item_name

\* C20: open_part fails with NotFound exactly when the normalized name is not in
\* the index, opens the part of that normalized name otherwise, and does the
\* same for every spelling of the name
C20_OpenPartByNormalizedName ==
    reader_last.op = "open_part"
        => /\ reader_last.res = "NotFound"
                <=> normalize_part_name(reader_last.name) \notin DictKeys(_parts)
           /\ reader_last.res = "ok"
                => OpenedIs(reader_last.result[1],
                            DictGet(_parts, normalize_part_name(reader_last.name)))
           /\ \A other \in Spellings(reader_last.name) :
                reader_open_part(items, _parts, other) = reader_last.result[1]

\* a part is opened by a spelling of its name that is not the normalized one,
\* in a package that also holds a fragmented part
C20_Witness ==
    /\ reader_last.op = "open_part"
    /\ reader_last.res = "ok"
    /\ reader_last.name # normalize_part_name(reader_last.name)
    /\ \E p \in 1..Len(_parts) : _parts[p].v.fragmented

----------------------------------------------------------------------------
(* Claims about the manifest after it is written *)

ManifestFrozenStep ==
    content_types_written
        => default_types' = default_types /\ overrides' = overrides

EmittedIsCurrent ==
    content_types_written
        => /\ StreamItems # { }
           /\ \A i \in StreamItems : items[i].data = write_xml(default_types, overrides)

\* C26: once the content-types stream is written, no call of the writer,
\* succeeding or failing, changes the Defaults or the Overrides, and the
\* stream in the archive is the encoding of the manifest the writer holds
C26_ManifestFrozenAfterFlush ==
    /\ [][ManifestFrozenStep]_vars
    /\ []EmittedIsCurrent

\* after the stream was written with an Override in it, a part was created
\* and a create_fragmented_part has failed for the manifest
C26_Witness ==
    /\ content_types_written
    /\ last = Call("create_fragmented_part", "InconsistentManifest")
    /\ overrides # << >>
    /\ \E i \in StreamItems : i < Len(items)

----------------------------------------------------------------------------
(* Claims about the fragments a stream opens *)

\* the entries of the archive the stream has opened, in the order of opening
OpenedFragments ==
    SelectSeq(fr[1].log, LAMBDA event : event.op = "open")

IsLastPiece(i) == EndsWith(items[i].name, << ".", "l", "a", "s", "t", ".", "p", "i", "e", "c", "e" >>)

\* the k-th entry that is opened is fragment k - 1 of the part
OpenedInIndexOrder ==
    \A k \in 1..Len(OpenedFragments) :
        \E is_last \in BOOLEAN :
            << "/" >> \o items[OpenedFragments[k].item].name
                = fr[1].name \o << "/", "[" >> \o IntToStr(k - 1) \o << "]" >>
                    \o (IF is_last THEN << ".", "l", "a", "s", "t" >> ELSE << >>)
                    \o << ".", "p", "i", "e", "c", "e" >>

\* an entry is opened only when none is open, and what is closed is the entry
\* opened last
OneFragmentOpen ==
    \A n \in 1..Len(fr[1].log) :
        IF n % 2 = 1 THEN fr[1].log[n].op = "open"
        ELSE /\ fr[1].log[n].op = "close"
             /\ fr[1].log[n].item = fr[1].log[n - 1].item

\* nothing is opened after a .last.piece
LastPieceOpenedLast ==
    \A k \in 1..Len(OpenedFragments) :
        IsLastPiece(OpenedFragments[k].item) => k = Len(OpenedFragments)

\* after close no entry is open, and close opens none
CloseReleases ==
    fr_last'.op = "close"
        => /\ Len(fr'[1].log) % 2 = 0
           /\ SelectSeq(fr'[1].log, LAMBDA event : event.op = "open") = OpenedFragments

\* C27: a fragmented-read stream opens the fragments of its part in index
\* order, each only after the one before it is closed, none after the
\* .last.piece, and close leaves no fragment open
C27_FragmentsOpenedOneByOne ==
    /\ [](fr # << >> => OpenedInIndexOrder /\ OneFragmentOpen /\ LastPieceOpenedLast)
    /\ [][CloseReleases]_vars

\* all of three fragments were read, in more than one read, and the stream
\* was closed while the .last.piece was open
C27_Witness ==
    /\ fr # << >>
    /\ Len(OpenedFragments) = MaxFragments
    /\ IsLastPiece(OpenedFragments[MaxFragments].item)
    /\ fr_last.op = "close"
    /\ Len(fr[1].log) = 2 * MaxFragments
    /\ fr_out # << >>

----------------------------------------------------------------------------
(* Claims about the name of the content-types stream *)

\* the items named like the content-types stream, in any letter case
NamedLikeStream ==
    { i \in 1..Len(items) : lower(items[i].name) = lower(Tail(CONTENT_TYPES_STREAM_NAME)) }

StreamNameIsTheStreams ==
    /\ Cardinality(NamedLikeStream) <= 1
    /\ \A i \in NamedLikeStream :
          /\ items[i].by = ByStream
          /\ items[i].name = Tail(CONTENT_TYPES_STREAM_NAME)
    /\ \A h \in 1..Len(handles) :
          lower(handles[h].name) # lower(CONTENT_TYPES_STREAM_NAME)

StreamNameRejected ==
    \A name \in StreamNameSpellings, content_type \in ContentTypePool :
        /\ open_part(overrides, items, name, content_type, << >>).res = "MalformedName"
        /\ create_fragmented_part(overrides, name, content_type).res = "MalformedName"
        /\ write_relationships(overrides, items, << >>, name).res = "MalformedName"

RejectedStep ==
    last'.res = "MalformedName"
        => items' = items /\ handles' = handles /\ overrides' = overrides

\* C28: open_part, create_fragmented_part and write_relationships fail with
\* MalformedName for the name of the content-types stream in any letter
\* case and create nothing then, so that the only item of that name an
\* archive holds is the one write_content_types_stream has made
C28_StreamNameIsNoPartName ==
    /\ []StreamNameIsTheStreams
    /\ []StreamNameRejected
    /\ [][RejectedStep]_vars

\* the stream is written, a part was created, and a create_fragmented_part
\* has been rejected for its name
C28_Witness ==
    /\ content_types_written
    /\ NamedLikeStream # { }
    /\ \E i \in 1..Len(items) : items[i].by = ByPart
    /\ last = Call("create_fragmented_part", "MalformedName")

----------------------------------------------------------------------------
(* Claims about Core Properties *)

\* C21: every Core Properties object can be written, and reading what was
\* written gives an object with the same attributes set to the same values
C21_CorePropertiesRoundTrip ==
    /\ cp_last.op = "write_xml" => cp_last.res = "ok"
    /\ cp_last.op = "from_xml" => cp_last.result = << cp >>

\* the relationships of the package root that are of the Core Properties type
CoreRelationships ==
    SelectSeq(RelationshipsOf(<< "/" >>),
              LAMBDA elem : IsInternal(elem) /\ elem.Type = RELATIONSHIP_TYPE_CORE_PROPERTIES)

\* the content of the part of that name
ContentOf(name) ==
    items[CHOOSE i \in 1..Len(items) :
            normalize_part_name(<< "/" >> \o items[i].name) = normalize_part_name(name)].data

\* the object a Core Properties document stands for: each text field that has
\* an element is set to the text of the element, the others are unset
RECURSIVE Decoded(_)
Decoded(file) ==
    IF file = << >> THEN OPCCoreProperties
    ELSE LET elem == file[Len(file)]
             before == Decoded(SubSeq(file, 1, Len(file) - 1))
             known == { i \in 1..Len(ATTRIBUTES) : ATTRIBUTES[i].tag = elem.tag }
         IN  IF known = { } THEN before
             ELSE [ before EXCEPT ![ATTRIBUTES[CHOOSE i \in known : TRUE].attr]
                                     = << elem.text >> ]

\* C22: get_core_properties succeeds with an object that has no field set when
\* the package root has no relationship of the Core Properties type, and with
\* the decoded target of the first such relationship when it has one
C22_CorePropertiesOfFirstRelationship ==
    reader_last.op = "get_core_properties"
        => /\ reader_last.res = "ok"
           /\ reader_last.result
                 = << IF CoreRelationships = << >> THEN OPCCoreProperties
                      ELSE Decoded(ContentOf(ResolvedAgainst(CoreRelationships[1].Target,
                                                             << "/" >>))) >>

PIECE == << ".", "p", "i", "e", "c", "e" >>
LAST_PIECE == << ".", "l", "a", "s", "t" >> \o PIECE

\* an item name without its ".piece" or ".last.piece", << >> when it has none
WithoutPiece(name) ==
    IF EndsWith(name, LAST_PIECE) THEN SubSeq(name, 1, Len(name) - Len(LAST_PIECE))
    ELSE IF EndsWith(name, PIECE) THEN SubSeq(name, 1, Len(name) - Len(PIECE))
    ELSE << >>

\* the digits of "[digits]", << >> for anything else
Bracketed(segment) ==
    IF /\ Len(segment) >= 3
       /\ segment[1] = "[" /\ segment[Len(segment)] = "]"
       /\ \A i \in 2..(Len(segment) - 1) : segment[i] \in Range(DIGITS)
    THEN SubSeq(segment, 2, Len(segment) - 1)
    ELSE << >>

\* the fragment index of an item named P/[k].piece or P/[k].last.piece, << >>
\* for any other item
FragmentIndex(name) == Bracketed(LastPiece(WithoutPiece(name), "/"))

\* the P of an item named P/[k].piece or P/[k].last.piece
FragmentedPartOf(name) ==
    SubSeq(name, 1, LastIndexOf(WithoutPiece(name), "/") - 1)

\* the names of the items of the archive other than the content-types stream
IndexedItems ==
    { << "/" >> \o items[i].name : i \in 1..Len(items) }
        \ { n \in { << "/" >> \o items[i].name : i \in 1..Len(items) } :
               normalize_part_name(n) = content_types_stream_name }

\* the parts that the items with fragment index 0 declare
DeclaredFragmented ==
    { normalize_part_name(FragmentedPartOf(n)) :
        n \in { f \in IndexedItems : FragmentIndex(f) = << "0" >> } }

\* the parts that the items that are no fragments are
PlainParts ==
    { normalize_part_name(n) : n \in { f \in IndexedItems : FragmentIndex(f) = << >> } }

----------------------------------------------------------------------------
(* Claims about relationships parts *)

\* P with its last segment S replaced by _rels/S.rels
WithRelsSegment(P) ==
    LET segments == Split(P, "/")
        S == segments[Len(segments)]
    IN  Join(SubSeq(segments, 1, Len(segments) - 1)
                \o << << "_", "r", "e", "l", "s" >>, S \o << ".", "r", "e", "l", "s" >> >>,
             "/")

RelationshipsPartNames ==
    /\ _rels_part_for(<< "/" >>)
          = << "/", "_", "r", "e", "l", "s", "/", ".", "r", "e", "l", "s" >>
    /\ \A P \in RelationshipsSourcePool :
          /\ _rels_part_for(P) = WithRelsSegment(P)
          /\ _rels_part_for(normalize_part_name(P)) = WithRelsSegment(normalize_part_name(P))

\* the archive holds a relationships part written for this source
WrittenFor(source) ==
    \E i \in 1..Len(items) :
        /\ items[i].by = ByPart
        /\ << "/" >> \o items[i].name = WithRelsSegment(normalize_part_name(source))

RelationshipsReadBack ==
    reader_last.op = "get_raw_relationships"
        => /\ reader_last.res = "ok"
           /\ reader_last.result = IF WrittenFor(reader_last.name)
                                    THEN RelationshipsFor(reader_last.name)
                                    ELSE << >>

\* a write_relationships that succeeds adds one item, that of the relationships
\* part of some normalized source, holding the relationships of that source,
\* of the relationships content type, which the manifest resolves for it with
\* a new Override only where nothing resolved it before; one that fails adds
\* no item and no Override, and fails for the manifest only after the flush
WriteRelationshipsStep ==
    last'.op = "write_relationships"
        => IF last'.res = "ok"
           THEN /\ Len(items') = Len(items) + 1
                /\ SubSeq(items', 1, Len(items)) = items
                /\ \E source \in RelationshipsSourcePool :
                      LET name == WithRelsSegment(normalize_part_name(source))
                          created == items'[Len(items')]
                          resolved == Resolves(default_types, overrides, name)
                                         = RELATIONSHIPS_CONTENT_TYPE
                      IN  /\ created.name = Tail(name)
                          /\ created.data = _write_relationships(RelationshipsFor(source))
                          /\ created.content_type = RELATIONSHIPS_CONTENT_TYPE
                          /\ created.by = ByPart
                          /\ Resolves(default_types, overrides', name)
                                = RELATIONSHIPS_CONTENT_TYPE
                          /\ resolved => overrides' = overrides
                          /\ ~resolved => ~content_types_written
           ELSE /\ items' = items
                /\ overrides' = overrides
                /\ last'.res = "InconsistentManifest" => content_types_written

\* C24: the relationships part of P is P with its last segment S replaced by
\* _rels/S.rels, /_rels/.rels for the root; write_relationships creates one
\* part of that name for the normalized source, typed as open_part types a
\* part; the reader gives back for a source the relationships written for it
C24_RelationshipsPartWrittenAndRead ==
    /\ []RelationshipsPartNames
    /\ []RelationshipsReadBack
    /\ [][WriteRelationshipsStep]_vars

\* relationships written for /A.txt before the flush, with no Default for
\* them, have been read back for /a.txt, and the write for "/d/" has failed
C24_Witness ==
    /\ reader_last.op = "get_raw_relationships"
    /\ reader_last.name = NAME_A_TXT
    /\ reader_last.result = << REL_2 >>
    /\ Len(default_types) = 1
    /\ WrittenFor(NAME_D_E)

----------------------------------------------------------------------------
(* Claims about the codecs *)

\* the keys in the order in which each comes first
RECURSIVE FirstOccurrences(_)
FirstOccurrences(keys) ==
    IF keys = << >> THEN << >>
    ELSE LET before == FirstOccurrences(SubSeq(keys, 1, Len(keys) - 1))
         IN  IF keys[Len(keys)] \in Range(before) THEN before
             ELSE Append(before, keys[Len(keys)])

\* the entries under the keys that Canonical makes of theirs, in insertion
\* order; entries whose keys become the same are one entry, of the last value
CanonicalEntries(entries, Canonical(_)) ==
    LET keys == FirstOccurrences([ i \in 1..Len(entries) |-> Canonical(entries[i].k) ])
        last_of(key) == CHOOSE i \in 1..Len(entries) :
                            /\ Canonical(entries[i].k) = key
                            /\ \A j \in (i + 1)..Len(entries) : Canonical(entries[j].k) # key
    IN  [ n \in 1..Len(keys) |-> [ k |-> keys[n], v |-> entries[last_of(keys[n])].v ] ]

\* C25: a manifest is written with its Defaults before its Overrides and reads
\* back as the same Defaults and Overrides in insertion order, the extensions
\* lowercased and the part names normalized (entries whose keys become equal
\* that way being one entry, of the last value); relationships that are written
\* read back as the same records in the same order, also when
\* TargetMode="Internal" is left out of the file
C25_CodecRoundTrip ==
    /\ cp_last.op = "write_xml" =>
          /\ Len(cp_last.file)
                = Len(cp.content_types.default_types) + Len(cp.content_types.overrides)
          /\ \A i \in 1..Len(cp_last.file) :
                cp_last.file[i].tag = IF i <= Len(cp.content_types.default_types)
                                      THEN "Default" ELSE "Override"
    /\ cp_last.op = "from_xml" =>
          cp_last.result
            = << [ default_types |->
                     CanonicalEntries(cp.content_types.default_types, lower),
                   overrides |->
                     CanonicalEntries(cp.content_types.overrides, normalize_part_name) ] >>
    /\ cp_last.op = "_read_relationships" =>
          /\ cp_last.res = "ok"
          /\ cp_last.result = << cp.relationships >>

\* a manifest with an Extension in capitals and a PartName that normalization
\* encodes, one Default and one Override before them, has been read back
C25_Witness ==
    /\ cp_last.op = "from_xml"
    /\ Len(cp.content_types.default_types) = 2
    /\ cp.content_types.default_types[2].k = << "T", "X", "T" >>
    /\ Len(cp.content_types.overrides) = 2
    /\ cp.content_types.overrides[2].k = NAME_B_C
    /\ Len(cp_last.result[1].default_types) = 2
    /\ Len(cp_last.result[1].overrides) = 2

====
